---- MODULE Spec2Model ----
(***************************************************************************)
(* A model of the neo-metric Instagram microservice: the sync-status       *)
(* tracker and the background sweepers of the comment and direct-message   *)
(* domains, the publication state machine (publish-now, edit, schedule,    *)
(* scheduler sweep) and the life cycle of the periodic tasks.              *)
(*                                                                         *)
(* In the sync domains time is counted in units of five minutes; in the    *)
(* publication domain one unit is one reading of the clock.                *)
(***************************************************************************)
EXTENDS Integers, Sequences, FiniteSets, TLC

VARIABLES
    domain,        \* which part of the service the specification explores
    now,           \* the wall clock (time.Now / NOW())
    commentSync,   \* table comment_sync_status, keyed by instagram_media_id
    accountSync,   \* table dm_account_sync_status, keyed by account_id
    sweep,         \* the sweeper's process(): the ids still to be synced
    consecFails,   \* history: consecutive failed sweep attempts per unit
    pubs,          \* table publications, keyed by id
    proc,          \* the goroutines working on publications, and where they are
    pubQueue,      \* ProcessScheduledPublications: the due publications left
    resp,          \* history: what the last call that returned gave its caller
    failedSince,   \* history: a publish attempt failed, no re-schedule since
    kind,          \* which periodic task the life-cycle specification explores
    sched,         \* the Scheduler struct: running, stopCh, wg, cancel
    caller,        \* the goroutines that call Start and Stop
    run,           \* the goroutines Start has launched with `go s.run(ctx)`
    parentDone,    \* the context handed to Start is cancelled
    panicked,      \* the process has panicked
    stopReturned,  \* history: a Stop that found the task running has returned
                   \* and Start has not been called since
    convSync,      \* table dm_conversation_sync_status, keyed by conversation_id
    cached,        \* the comments / messages tables hold rows of the unit
    read,          \* history: the last cache read and what it gave its caller
    drain,         \* a drain sync under way: its loop and its page saves
    store,         \* the table a drain saves to: how many rows each id has
    drainStatus,   \* the sync-status row of the unit that is drained
    igHidden,      \* Instagram: the hidden flag of each comment
    commentRows,   \* table comments, keyed by id: the is_hidden column
    fetched,       \* allComments of a comment drain between fetch and upsert
    hideCall,      \* Service.Hide under way
    locallySet,    \* history: the flag UpdateHidden last wrote for a comment
    pubCall,       \* Publisher.publishPost under way: where it is, its locals
    containers,    \* Instagram: the media containers created, in order
    wait,          \* Publisher.waitForContainer: the wait under way or last ended
    committed,     \* history: containers handed to publishContainer
    waitFailed     \* history: containers whose wait saw error or expired

syncVars == <<commentSync, accountSync, sweep, consecFails>>

pubVars == <<pubs, proc, pubQueue, resp, failedSince>>

lifeVars == <<kind, sched, caller, run, parentDone, panicked, stopReturned>>

readVars == <<convSync, cached, read>>

drainVars == <<drain, store, drainStatus>>

hideVars == <<igHidden, commentRows, fetched, hideCall, locallySet>>

igVars == <<pubCall, containers, wait, committed, waitFailed>>

restVars == <<readVars, drainVars, hideVars, igVars>>

nonReadVars ==
    <<domain, now, accountSync, sweep, consecFails, pubVars, lifeVars,
      drainVars, hideVars, igVars>>

nonDrainVars ==
    <<domain, now, syncVars, pubVars, lifeVars, readVars, hideVars, igVars>>

nonHideVars ==
    <<domain, now, syncVars, pubVars, lifeVars, readVars, drainVars, igVars>>

nonIgVars ==
    <<domain, now, syncVars, pubVars, lifeVars, readVars, drainVars, hideVars>>

nonSyncVars == <<pubVars, lifeVars, restVars>>

nonPubVars == <<syncVars, lifeVars, restVars>>

nonLifeVars == <<domain, now, syncVars, pubVars, restVars>>

vars == <<domain, now, syncVars, pubVars, lifeVars, restVars>>

(***************************************************************************)
(* Bounds of the model.                                                    *)
(***************************************************************************)
MaxTime == 3

BatchSize == 2

(***************************************************************************)
(* Program constants.                                                      *)
(***************************************************************************)
\* cfg.MaxRetries defaults to 5
MaxRetries == 5

\* the comment sweeper's cfg.SyncAge defaults to 10 minutes
CommentSyncAge == 2

\* the direct sweeper's cfg.SyncAge defaults to 30 minutes
DirectSyncAge == 6

\* Service.syncMaxAge is 5 minutes
SyncMaxAge == 1

\* COALESCE(last_synced_at, '1970-01-01'): a never-synced unit sorts before
\* every timestamp
Epoch == -1000

\* the time of the last attempt of an earlier run of the service: longer ago
\* than every sync age when this run starts at time 0
PriorTime == -(DirectSyncAge + 1)

\* published, non-story publications that carry an instagram_media_id
Media == {"m1", "m2"}

\* rows of instagram_accounts
Accounts == {"a1"}

Min(a, b) == IF a <= b THEN a ELSE b

(***************************************************************************)
(* The sync-status tracker.                                                *)
(***************************************************************************)
\* no row for the unit (GetSyncStatus returns nil, the LEFT JOIN yields NULLs)
NoRow ==
    [present |-> FALSE, lastSyncedAt |-> 0, nextCursor |-> "",
     syncComplete |-> FALSE, retryCount |-> 0, failed |-> FALSE,
     lastError |-> ""]

\* INSERT ... ON CONFLICT DO UPDATE of last_synced_at, next_cursor and
\* sync_complete; retry_count, failed and last_error keep their value (or take
\* the column defaults 0, false, NULL on insert)
UpdateSyncStatus(row, lastSyncedAt, nextCursor, syncComplete) ==
    IF row.present
    THEN [row EXCEPT !.lastSyncedAt = lastSyncedAt,
                     !.nextCursor = nextCursor,
                     !.syncComplete = syncComplete]
    ELSE [present |-> TRUE, lastSyncedAt |-> lastSyncedAt,
          nextCursor |-> nextCursor, syncComplete |-> syncComplete,
          retryCount |-> 0, failed |-> FALSE, lastError |-> ""]

IncrementRetryCountOffByOne(row, t, lastError, maxRetries) ==
    IF row.present
    THEN [row EXCEPT !.retryCount = row.retryCount + 1,
                     !.lastError = lastError,
                     !.failed = (row.retryCount + 2 >= maxRetries),
                     !.lastSyncedAt = t]
    ELSE [present |-> TRUE, lastSyncedAt |-> t, nextCursor |-> "",
          syncComplete |-> FALSE, retryCount |-> 1,
          failed |-> (2 >= maxRetries), lastError |-> lastError]

\* INSERT (.., NOW(), 1, err, 1 >= max) ON CONFLICT DO UPDATE SET
\* retry_count + 1, last_error, failed = (retry_count + 1) >= max,
\* last_synced_at = NOW()
IncrementRetryCount(row, t, lastError, maxRetries) ==
    IF row.present
    THEN [row EXCEPT !.retryCount = row.retryCount + 1,
                     !.lastError = lastError,
                     !.failed = (row.retryCount + 1 >= maxRetries),
                     !.lastSyncedAt = t]
    ELSE [present |-> TRUE, lastSyncedAt |-> t, nextCursor |-> "",
          syncComplete |-> FALSE, retryCount |-> 1,
          failed |-> (1 >= maxRetries), lastError |-> lastError]

\* UPDATE ... SET retry_count = 0, failed = false, last_error = NULL: no row,
\* no change
ResetRetryCount(row) ==
    IF row.present
    THEN [row EXCEPT !.retryCount = 0, !.failed = FALSE, !.lastError = ""]
    ELSE row

\* the account repository's IncrementRetryCount, which Service.
\* IncrementAccountSyncRetryCount calls: increment retryCount, set
\* failed = (retryCount >= maxRetries), record lastError
AccountIncrementRetryCount(row, t, lastError, maxRetries) ==
    IF row.present
    THEN [row EXCEPT !.retryCount = row.retryCount + 1,
                     !.lastError = lastError,
                     !.failed = (row.retryCount + 1 >= maxRetries)]
    ELSE [present |-> TRUE, lastSyncedAt |-> t, nextCursor |-> "",
          syncComplete |-> FALSE, retryCount |-> 1,
          failed |-> (1 >= maxRetries), lastError |-> lastError]

\* the account repository's ResetRetryCount
AccountResetRetryCount(row) ==
    IF row.present
    THEN [row EXCEPT !.retryCount = 0, !.failed = FALSE, !.lastError = ""]
    ELSE row

\* ORDER BY COALESCE(last_synced_at, '1970-01-01') ASC
SortKey(row) == IF row.present THEN row.lastSyncedAt ELSE Epoch

\* the results ORDER BY key ASC LIMIT limit can give for the units eligible:
\* every sequence without repetition of min(limit, |eligible|) of them, in
\* non-decreasing key order, that leaves out no unit with a smaller key than
\* one it takes (rows of equal key come in any order)
OrderedLimit(table, eligible, limit) ==
    LET n == Min(limit, Cardinality(eligible))
    IN {s \in [1..n -> eligible] :
           /\ \A i, j \in 1..n : i < j =>
                 /\ s[i] # s[j]
                 /\ SortKey(table[s[i]]) <= SortKey(table[s[j]])
           /\ \A u \in eligible : (\A i \in 1..n : s[i] # u) =>
                 \A i \in 1..n : SortKey(table[s[i]]) <= SortKey(table[u])}

\* WHERE (css.failed IS NULL OR css.failed = false)
\*   AND (css.last_synced_at IS NULL OR css.last_synced_at < cutoff)
GetMediaIDsNeedingSync(table, t, olderThan, limit) ==
    LET cutoff == t - olderThan
        eligible == {m \in DOMAIN table :
                        /\ (~table[m].present \/ ~table[m].failed)
                        /\ (~table[m].present \/ table[m].lastSyncedAt < cutoff)}
    IN OrderedLimit(table, eligible, limit)

\* WHERE s.account_id IS NULL OR s.last_synced_at < threshold
GetAccountsNeedingSync(table, t, olderThan, limit) ==
    LET threshold == t - olderThan
        eligible == {a \in DOMAIN table :
                        ~table[a].present \/ table[a].lastSyncedAt < threshold}
    IN OrderedLimit(table, eligible, limit)

(***************************************************************************)
(* Drain syncs, abstracted to their result: a drain that completes writes  *)
(* the sync status, one that fails writes nothing to it.                   *)
(***************************************************************************)
Idle == [active |-> FALSE, queue |-> <<>>]

\* the loop of Scheduler.process with `return` where it has `continue`
RestOfBatchAborting(queue, outcome) ==
    IF outcome = "ok" THEN Tail(queue) ELSE <<>>

\* the loop of Scheduler.process after one id: an error is logged and the
\* loop continues with the ids after it
RestOfBatch(queue, outcome) == Tail(queue)

\* Service.syncCommentsFromInstagram: page through GetComments, UpsertBatch,
\* then UpdateSyncStatus{LastSyncedAt: now, SyncComplete: true}; an error of
\* a fetch or of the upsert returns before the status is written
SyncCommentsFromInstagram(row, t, ok) ==
    IF ok THEN UpdateSyncStatus(row, t, "", TRUE) ELSE row

\* Service.SyncConversations: page through GetConversations, persist the pages,
\* then accountSyncRepo.UpdateSyncStatus{LastSyncedAt: now, SyncComplete: true}
SyncConversations(row, t, ok) ==
    IF ok THEN UpdateSyncStatus(row, t, "", TRUE) ELSE row

\* needsSync as it would be if a failed unit were left alone
NeedsSyncUnlessFailed(row, t) ==
    ~row.present \/ (~row.failed /\ t - row.lastSyncedAt > SyncMaxAge)

\* needsSync := syncStatus == nil || time.Since(LastSyncedAt) > s.syncMaxAge
NeedsSync(row, t) == ~row.present \/ t - row.lastSyncedAt > SyncMaxAge

(***************************************************************************)
(* The comment sweeper (comment/scheduler) and the comment service.        *)
(***************************************************************************)
\* Scheduler.process, up to the loop: GetMediaIDsNeedingSync(syncAge, batchSize)
CommentSweepSelect ==
    /\ domain = "comment"
    /\ ~sweep.active
    /\ \E ids \in GetMediaIDsNeedingSync(commentSync, now, CommentSyncAge, BatchSize) :
          sweep' = IF Len(ids) = 0 THEN Idle ELSE [active |-> TRUE, queue |-> ids]
    /\ UNCHANGED <<nonSyncVars, domain, now, commentSync, accountSync, consecFails>>

\* Scheduler.syncMedia for the next id of the batch: account lookup, access
\* token, SyncMediaComments; IncrementSyncRetryCount on each error,
\* ResetSyncRetryCount on success
CommentSyncMedia(outcome) ==
    /\ domain = "comment"
    /\ sweep.active
    /\ LET m == Head(sweep.queue)
           row == commentSync[m]
           rest == RestOfBatch(sweep.queue, outcome)
       IN /\ IF outcome = "ok"
             THEN /\ commentSync' = [commentSync EXCEPT ![m] =
                        ResetRetryCount(SyncCommentsFromInstagram(row, now, TRUE))]
                  /\ consecFails' = [consecFails EXCEPT ![m] = 0]
             ELSE /\ commentSync' = [commentSync EXCEPT ![m] =
                        IncrementRetryCount(
                            SyncCommentsFromInstagram(row, now, FALSE),
                            now, outcome, MaxRetries)]
                  /\ consecFails' = [consecFails EXCEPT ![m] =
                                        Min(consecFails[m] + 1, MaxRetries)]
          /\ sweep' = IF Len(rest) = 0 THEN Idle
                      ELSE [active |-> TRUE, queue |-> rest]
    /\ UNCHANGED <<nonSyncVars, domain, now, accountSync>>

\* Scheduler.process: case <-ctx.Done(): return, between two ids of the batch
SweepCancelled ==
    /\ sweep.active
    /\ sweep' = Idle
    /\ UNCHANGED <<nonSyncVars, domain, now, commentSync, accountSync, consecFails>>

\* Service.getCommentsWithCache: the read path, which drains first when the
\* unit was never synced or is stale, and serves the cache when the drain
\* fails and a status row exists
CommentGetComments(m, ok) ==
    /\ domain = "comment"
    /\ NeedsSync(commentSync[m], now)
    /\ commentSync' = [commentSync EXCEPT ![m] =
          SyncCommentsFromInstagram(commentSync[m], now, ok)]
    /\ UNCHANGED <<nonSyncVars, domain, now, accountSync, sweep, consecFails>>

\* comment Policy.SyncComments: GetAccessToken, then Service.SyncMediaComments
CommentManualSync(m, outcome) ==
    /\ domain = "comment"
    /\ commentSync' = [commentSync EXCEPT ![m] =
          SyncCommentsFromInstagram(commentSync[m], now, outcome = "ok")]
    /\ UNCHANGED <<nonSyncVars, domain, now, accountSync, sweep, consecFails>>

(***************************************************************************)
(* The conversation sweeper (direct/scheduler) and the direct service.     *)
(***************************************************************************)
\* Scheduler.process, up to the loop: GetAccountsNeedingSync(syncAge, batchSize)
AccountSweepSelect ==
    /\ domain = "account"
    /\ ~sweep.active
    /\ \E ids \in GetAccountsNeedingSync(accountSync, now, DirectSyncAge, BatchSize) :
          sweep' = IF Len(ids) = 0 THEN Idle ELSE [active |-> TRUE, queue |-> ids]
    /\ UNCHANGED <<nonSyncVars, domain, now, commentSync, accountSync, consecFails>>

\* Scheduler.syncAccount for the next id of the batch: access token, user id,
\* SyncConversations; every error is returned as it is
AccountSyncAccount(outcome) ==
    /\ domain = "account"
    /\ sweep.active
    /\ LET a == Head(sweep.queue)
           rest == RestOfBatch(sweep.queue, outcome)
       IN /\ accountSync' = [accountSync EXCEPT ![a] =
                SyncConversations(accountSync[a], now, outcome = "ok")]
          /\ consecFails' = [consecFails EXCEPT ![a] =
                IF outcome = "ok" THEN 0
                ELSE Min(consecFails[a] + 1, MaxRetries)]
          /\ sweep' = IF Len(rest) = 0 THEN Idle
                      ELSE [active |-> TRUE, queue |-> rest]
    /\ UNCHANGED <<nonSyncVars, domain, now, commentSync>>

\* direct Policy.SyncConversations: the manual trigger
AccountManualSync(a, outcome) ==
    /\ domain = "account"
    /\ accountSync' = [accountSync EXCEPT ![a] =
          SyncConversations(accountSync[a], now, outcome = "ok")]
    /\ UNCHANGED <<nonSyncVars, domain, now, commentSync, sweep, consecFails>>

\* Service.IncrementAccountSyncRetryCount
IncrementAccountSyncRetryCount(a, lastError) ==
    /\ domain = "account"
    /\ accountSync[a].retryCount < MaxRetries
    /\ accountSync' = [accountSync EXCEPT ![a] =
          AccountIncrementRetryCount(accountSync[a], now, lastError, MaxRetries)]
    /\ UNCHANGED <<nonSyncVars, domain, now, commentSync, sweep, consecFails>>

\* Service.ResetAccountSyncRetryCount
ResetAccountSyncRetryCount(a) ==
    /\ domain = "account"
    /\ accountSync' = [accountSync EXCEPT ![a] =
          AccountResetRetryCount(accountSync[a])]
    /\ UNCHANGED <<nonSyncVars, domain, now, commentSync, sweep, consecFails>>

\* time passes
Tick ==
    /\ now < MaxTime
    /\ now' = now + 1
    /\ UNCHANGED <<nonSyncVars, domain, commentSync, accountSync, sweep, consecFails>>

(***************************************************************************)
(* Publications: the entity and its table.                                 *)
(***************************************************************************)
\* the clock stops here in the publication specifications
MaxPubTime == 2

\* a nil *time.Time
NoTime == -1

PubIds == {"p1"}

\* the goroutine of an HTTP request, and the publication scheduler's goroutine
Http == {"h1"}

Procs == Http \cup {"sched"}

\* the media ids Instagram can answer a publish with
RemoteIds == {"ig1", "ig2"}

\* Service.CreatePublication without ScheduledAt: a draft with its media
Draft ==
    [type |-> "post", status |-> "draft", scheduledAt |-> NoTime,
     igMediaId |-> "", publishedAt |-> NoTime, errorMessage |-> "",
     nMedia |-> 1]

\* a nil *entity.Publication
NoPub ==
    [type |-> "", status |-> "none", scheduledAt |-> NoTime,
     igMediaId |-> "", publishedAt |-> NoTime, errorMessage |-> "",
     nMedia |-> 0]

IdleProc == [pc |-> "idle", op |-> "", id |-> "", pub |-> NoPub, res |-> ""]

NoResp == [op |-> "", id |-> "", err |-> "", remote |-> "", pub |-> NoPub]

\* the publication variables in the specifications that do not use them
PubUnused ==
    /\ pubs = [id \in PubIds |-> Draft]
    /\ proc = [p \in Procs |-> IdleProc]
    /\ pubQueue = <<>>
    /\ resp = NoResp
    /\ failedSince = [id \in PubIds |-> FALSE]

(***************************************************************************)
(* Periodic tasks: the Scheduler struct and the goroutines around it.      *)
(***************************************************************************)
\* how many goroutines call Start, once each, and so how many run goroutines
\* there can be: the Start of caller g launches run goroutine g
MaxStarts == 2

\* how many times Stop is called
MaxStops == 2

\* the most units of work (remote calls, polls) one sweep has to do
SweepUnits == 2

Runs == 1..MaxStarts

\* scheduler.New: stopCh made, nothing running, no cancel function yet
NewScheduler == [running |-> FALSE, stopCh |-> "open", wg |-> 0, cancel |-> 0]

\* a run goroutine that `go s.run(ctx)` has not launched yet; tickIn is where
\* the goroutine was when the tick its ticker holds fired
NoRun ==
    [pc |-> "none", ctxDone |-> FALSE, tick |-> 0, tickIn |-> "", left |-> 0]

\* the life-cycle variables in the specifications that do not use them
LifeUnused ==
    /\ kind = "none"
    /\ sched = NewScheduler
    /\ caller = [starter |-> [g \in Runs |-> "idle"],
                 stopper |-> [pc |-> "idle", left |-> 0, cancel |-> 0]]
    /\ run = [g \in Runs |-> NoRun]
    /\ parentDone = FALSE
    /\ panicked = FALSE
    /\ stopReturned = FALSE

(***************************************************************************)
(* Cache reads: the variables at rest.                                     *)
(***************************************************************************)
\* rows of dm_conversations
Conversations == {"c1"}

\* no cache read has returned yet
NoRead ==
    [op |-> "", unit |-> "", row |-> NoRow, at |-> 0, hadCache |-> FALSE,
     drained |-> FALSE, drainOk |-> FALSE, err |-> FALSE]

\* the cache-read variables in the specifications that do not use them
ReadUnused ==
    /\ convSync = [c \in Conversations |-> NoRow]
    /\ cached = [u \in Media \cup Conversations |-> FALSE]
    /\ read = NoRead

(***************************************************************************)
(* Drain syncs: the variables at rest.                                     *)
(***************************************************************************)
\* the most pages Instagram serves to one drain
MaxPages == 4

\* how many drains of the unit follow one another
MaxDrains == 2

\* the items Instagram lists for the unit: x1 is, where the unit is a
\* conversation, a message with neither text nor attachment
Items == {"i1", "i2", "x1"}

Unsupported == {"x1"}

\* the batches a page save can be given
Batches == (SUBSET Items) \ {{}}

\* no drain under way
NoDrain ==
    [kind |-> "", pc |-> "idle", run |-> 0, pages |-> 0, emptyPages |-> 0,
     emptyRun |-> 0, seen |-> {}, collected |-> {},
     pending |-> [b \in Batches |-> 0], errCh |-> FALSE, saveFailed |-> FALSE,
     result |-> ""]

\* the drain variables in the specifications that do not use them
DrainUnused ==
    /\ drain = NoDrain
    /\ store = [i \in Items |-> 0]
    /\ drainStatus = NoRow

(***************************************************************************)
(* Hiding comments: the variables at rest.                                 *)
(***************************************************************************)
\* comments of one media on Instagram
CommentIds == {"k1", "k2"}

\* no row in table comments
NoComment == [present |-> FALSE, hidden |-> FALSE]

\* no Service.Hide under way
NoHide == [pc |-> "idle", id |-> "", hide |-> FALSE]

\* UpdateHidden has not written the flag of the comment
NotSet == [set |-> FALSE, hidden |-> FALSE]

\* no comment drain between its fetch and its upsert
NotFetched == [k \in CommentIds |-> "none"]

\* the hide variables in the specifications that do not use them
HideUnused ==
    /\ igHidden = [k \in CommentIds |-> FALSE]
    /\ commentRows = [k \in CommentIds |-> NoComment]
    /\ fetched = NotFetched
    /\ hideCall = NoHide
    /\ locallySet = [k \in CommentIds |-> NotSet]

(***************************************************************************)
(* The Instagram publisher: the variables at rest.                         *)
(***************************************************************************)
\* the most media items a post carries
MaxMedia == 3

\* Publisher.publishPost not called; ready holds the containers for which a
\* waitForContainer of the call has returned nil
NoCall ==
    [pc |-> "idle", media |-> <<>>, i |-> 0, childIDs |-> <<>>,
     container |-> 0, result |-> "", ready |-> {}]

\* Publisher.waitForContainer not called
NoWait ==
    [container |-> 0, attempts |-> 0, lastPoll |-> "", allInProgress |-> TRUE,
     end |-> "", msg |-> <<>>, after |-> ""]

\* the publisher variables in the specifications that do not use them
IgUnused ==
    /\ pubCall = NoCall
    /\ containers = <<>>
    /\ wait = NoWait
    /\ committed = {}
    /\ waitFailed = {}

\* everything but the sync tracker, the publications and the life cycle, in
\* the specifications that do not use it
RestUnused ==
    /\ ReadUnused
    /\ DrainUnused
    /\ HideUnused
    /\ IgUnused

\* what r failed sweep attempts in a row, the last of them at PriorTime, left
\* of a unit in comment_sync_status
RECURSIVE PriorRow(_)
PriorRow(r) ==
    IF r = 0 THEN NoRow
    ELSE IncrementRetryCount(PriorRow(r - 1), PriorTime, "sync_err", MaxRetries)

\* the tables as earlier runs of the service left them: a media unit unknown
\* or with some failed attempts short of the limit behind it, an account
\* unknown or synced at PriorTime
InitSync ==
    /\ domain \in {"comment", "account"}
    /\ now = 0
    /\ \E r \in [Media -> 0..(MaxRetries - 1)] :
          /\ commentSync = [m \in Media |->
                               IF domain = "comment" THEN PriorRow(r[m]) ELSE NoRow]
          /\ consecFails = [u \in Media \cup Accounts |->
                               IF domain = "comment" /\ u \in Media THEN r[u] ELSE 0]
    /\ \E known \in SUBSET Accounts :
          accountSync = [a \in Accounts |->
                            IF domain = "account" /\ a \in known
                            THEN SyncConversations(NoRow, PriorTime, TRUE)
                            ELSE NoRow]
    /\ sweep = Idle
    /\ PubUnused
    /\ LifeUnused
    /\ RestUnused

NextSync ==
    \/ CommentSweepSelect
    \/ \E o \in {"ok", "account_err", "token_err", "sync_err"} : CommentSyncMedia(o)
    \/ SweepCancelled
    \/ \E m \in Media, ok \in BOOLEAN : CommentGetComments(m, ok)
    \/ \E m \in Media, o \in {"ok", "token_err", "sync_err"} : CommentManualSync(m, o)
    \/ AccountSweepSelect
    \/ \E o \in {"ok", "token_err", "userid_err", "sync_err"} : AccountSyncAccount(o)
    \/ \E a \in Accounts, o \in {"ok", "token_err", "sync_err"} : AccountManualSync(a, o)
    \/ \E a \in Accounts : IncrementAccountSyncRetryCount(a, "sync_err")
    \/ \E a \in Accounts : ResetAccountSyncRetryCount(a)
    \/ Tick

SpecSync == InitSync /\ [][NextSync]_vars

(***************************************************************************)
(* Properties of the sync-status tracker and the sweepers.                 *)
(***************************************************************************)
\* what a sweep attempt can come back with other than success
SweepErrors == {"account_err", "token_err", "userid_err", "sync_err"}

\* C1: in every reachable state, every sync-status record (of a media unit or
\* of an account) with failed = true has retryCount >= maxRetries
C1_FailedImpliesRetriesExhausted ==
    /\ \A m \in Media :
          commentSync[m].failed => commentSync[m].retryCount >= MaxRetries
    /\ \A a \in Accounts :
          accountSync[a].failed => accountSync[a].retryCount >= MaxRetries

\* a media unit the sweeper has marked failed, with its fifth failure in a row
C1_Witness ==
    \E m \in Media :
       /\ commentSync[m].present
       /\ commentSync[m].failed
       /\ consecFails[m] = MaxRetries

\* C2: every drain sync of a unit that completes successfully, from the
\* sweeper, from a stale on-demand read or from a manual trigger, leaves the
\* unit with retryCount = 0 and failed = false
C2_SuccessfulDrainResets ==
    [][/\ \A m \in Media :
             (\/ (sweep.active /\ Head(sweep.queue) = m /\ CommentSyncMedia("ok"))
              \/ CommentGetComments(m, TRUE)
              \/ CommentManualSync(m, "ok"))
             => (commentSync'[m].retryCount = 0 /\ ~commentSync'[m].failed)
       /\ \A a \in Accounts :
             (\/ (sweep.active /\ Head(sweep.queue) = a /\ AccountSyncAccount("ok"))
              \/ AccountManualSync(a, "ok"))
             => (accountSync'[a].retryCount = 0 /\ ~accountSync'[a].failed)]_vars

\* C3: no selection query of a sweeper, in the comment domain or in the
\* account domain, returns a unit whose sync status has failed = true
C3_FailedNeverSelected ==
    /\ \A ids \in GetMediaIDsNeedingSync(commentSync, now, CommentSyncAge, BatchSize) :
          \A i \in 1..Len(ids) : ~commentSync[ids[i]].failed
    /\ \A ids \in GetAccountsNeedingSync(accountSync, now, DirectSyncAge, BatchSize) :
          \A i \in 1..Len(ids) : ~accountSync[ids[i]].failed

\* C4: in the comment sweeper and in the conversation sweeper, a failed sweep
\* attempt on a unit adds one to its retryCount and records the error as
\* lastError, and the unit is failed afterwards exactly if that was its
\* maxRetries-th failed attempt in a row
C4_FailedAttemptCounts ==
    [][\A o \in SweepErrors :
          (sweep.active /\ (CommentSyncMedia(o) \/ AccountSyncAccount(o)))
          => LET u == Head(sweep.queue)
                 before == IF domain = "comment" THEN commentSync[u]
                           ELSE accountSync[u]
                 after == IF domain = "comment" THEN commentSync'[u]
                          ELSE accountSync'[u]
             IN /\ after.present
                /\ after.retryCount = before.retryCount + 1
                /\ after.lastError = o
                /\ after.failed <=> (consecFails'[u] = MaxRetries)]_vars

(***************************************************************************)
(* The publication entity, repository and pipeline.                        *)
(***************************************************************************)
IsEditableAlsoInError(pub) ==
    pub.status = "draft" \/ pub.status = "scheduled" \/ pub.status = "error"

\* Publication.IsEditable
IsEditable(pub) == pub.status = "draft" \/ pub.status = "scheduled"

\* Publication.CanPublish
CanPublish(pub) == pub.status = "scheduled" /\ pub.nMedia > 0

\* the three publication types
PublicationTypes == {"post", "story", "reel"}

\* the most media items a post may carry
MaxPostMedia == 10

BeforeWithGrace(t, u) == t + 1 < u

\* time.Time.Before
Before(t, u) == t < u

\* Publication.Validate, at time t: the error it returns, "" for nil
Validate(pub, t) ==
    IF pub.nMedia = 0 THEN "no_media"
    ELSE IF pub.type = "post" /\ pub.nMedia > MaxPostMedia
         THEN "too_many_media"
    ELSE IF pub.type \in {"story", "reel"} /\ pub.nMedia > 1
         THEN "single_media_required"
    ELSE IF pub.status = "scheduled" /\ pub.scheduledAt # NoTime
            /\ Before(pub.scheduledAt, t)
         THEN "time_in_past"
         ELSE ""

\* the errors Validate returns
ValidationErrors ==
    {"no_media", "too_many_media", "single_media_required", "time_in_past"}

\* PublicationPostgres.GetByID: the row, without its media
GetByID(table, id) == [table[id] EXCEPT !.nMedia = 0]

\* Service.GetPublication: the row and the media of MediaPostgres
GetPublication(table, id) == table[id]

\* Publisher.publishStory and publishReel, their first check: a story or a
\* reel with a number of media other than one is turned down before any call
PublishCheck(pub) ==
    IF pub.type \in {"story", "reel"} /\ pub.nMedia # 1
    THEN "single_media_required"
    ELSE ""

\* PublicationPostgres.Update: SET caption, status, scheduled_at WHERE id
Update(row, status, scheduledAt) ==
    [row EXCEPT !.status = status, !.scheduledAt = scheduledAt]

\* PublicationPostgres.UpdateStatus: SET status, error_message WHERE id
UpdateStatus(row, status, errorMsg) ==
    [row EXCEPT !.status = status, !.errorMessage = errorMsg]

SetPublishedForgetsRemoteId(row, instagramMediaID, publishedAt) ==
    [row EXCEPT !.status = "published", !.publishedAt = publishedAt]

\* PublicationPostgres.SetPublished: SET status = 'published',
\* instagram_media_id, published_at WHERE id
SetPublished(row, instagramMediaID, publishedAt) ==
    [row EXCEPT !.status = "published", !.igMediaId = instagramMediaID,
                !.publishedAt = publishedAt]

\* the query with scheduled_at < now in place of scheduled_at <= now
GetScheduledForPublishingStrict(table, t) ==
    LET due == {id \in DOMAIN table : /\ table[id].status = "scheduled"
                                      /\ table[id].scheduledAt # NoTime
                                      /\ table[id].scheduledAt < t}
        n == Cardinality(due)
    IN {q \in [1..n -> due] :
           \A i, j \in 1..n : i < j =>
              /\ q[i] # q[j]
              /\ table[q[i]].scheduledAt <= table[q[j]].scheduledAt}

\* PublicationPostgres.GetScheduledForPublishing: WHERE status = 'scheduled'
\* AND scheduled_at <= now ORDER BY scheduled_at ASC
GetScheduledForPublishing(table, t) ==
    LET due == {id \in DOMAIN table : /\ table[id].status = "scheduled"
                                /\ table[id].scheduledAt # NoTime
                                /\ table[id].scheduledAt <= t}
        n == Cardinality(due)
    IN {q \in [1..n -> due] :
           \A i, j \in 1..n : i < j =>
              /\ q[i] # q[j]
              /\ table[q[i]].scheduledAt <= table[q[j]].scheduledAt}

\* the errors of the pipeline: of GetAccessToken and GetInstagramUserID, and
\* of Publisher.Publish (container creation, waitForContainer, publishContainer)
CredentialErrors == {"token_err", "userid_err"}

PublishErrors == {"container_err", "poll_err", "commit_err"}

\* what an update request carries, with nMedia the number of media in it:
\* through Policy.SchedulePublication and Policy.SaveAsDraft ("post") a
\* ScheduledAt or ClearSchedule and nothing else, through
\* Policy.UpdatePublication ("put") any of the fields
UpdateInputsWith(counts) ==
    [kind : {"schedule"}, api : {"post"}, at : 0..MaxPubTime, nMedia : {0}]
        \cup [kind : {"clear"}, api : {"post"}, at : {NoTime}, nMedia : {0}]
        \cup [kind : {"edit", "clear"}, api : {"put"}, at : {NoTime},
              nMedia : counts]
        \cup [kind : {"schedule"}, api : {"put"}, at : 0..MaxPubTime,
              nMedia : counts]

\* the requests of the specifications of the pipeline: one media or none
UpdateInputs == UpdateInputsWith({0, 1})

\* in the sequential specification a request starts only when nothing else
\* is under way
MayStart ==
    domain \in {"publication_seq", "publication_edit"}
    => \A q \in Procs : proc[q].pc = "idle"

\* a goroutine's PublishNow has returned: an HTTP goroutine is done, the
\* scheduler's goes on with the rest of its batch
Returned(p, queue) ==
    IF p = "sched" /\ Len(queue) > 0
    THEN [IdleProc EXCEPT !.pc = "pn_read", !.op = "publish", !.id = Head(queue)]
    ELSE IdleProc

\* Policy.PublishNow, to its status checks: GetPublication, return the record
\* if it is published, ErrPublicationNotEditable if it is neither draft nor
\* ready to publish
PublishNowRead(p, id) ==
    /\ \/ p \in Http /\ proc[p].pc = "idle" /\ MayStart
       \/ p = "sched" /\ proc[p].pc = "pn_read" /\ proc[p].id = id
    /\ LET pub == GetPublication(pubs, id)
           queue == IF p = "sched" THEN Tail(pubQueue) ELSE pubQueue
       IN IF pub.status = "published"
          THEN /\ resp' = [op |-> "publish", id |-> id, err |-> "",
                           remote |-> "", pub |-> pub]
               /\ proc' = [proc EXCEPT ![p] = Returned(p, queue)]
               /\ pubQueue' = queue
          ELSE IF ~CanPublish(pub) /\ pub.status # "draft"
          THEN /\ resp' = [op |-> "publish", id |-> id, err |-> "not_editable",
                           remote |-> "", pub |-> NoPub]
               /\ proc' = [proc EXCEPT ![p] = Returned(p, queue)]
               /\ pubQueue' = queue
          ELSE /\ proc' = [proc EXCEPT ![p] =
                     [IdleProc EXCEPT !.pc = "pn_remote", !.op = "publish",
                                      !.id = id, !.pub.type = pub.type,
                                      !.pub.nMedia = pub.nMedia]]
               /\ UNCHANGED <<resp, pubQueue>>
    /\ UNCHANGED <<domain, now, nonPubVars, pubs, failedSince>>

\* Policy.PublishNow, its remote calls: GetAccessToken, GetInstagramUserID,
\* Publisher.Publish; an error of the first two is returned as it is, and
\* Publish turns a story or reel without exactly one media down by itself
PublishNowRemote(p, outcome) ==
    /\ proc[p].pc = "pn_remote"
    /\ LET id == proc[p].id
           queue == IF p = "sched" THEN Tail(pubQueue) ELSE pubQueue
       IN IF outcome \in CredentialErrors
          THEN /\ resp' = [op |-> "publish", id |-> id, err |-> outcome, remote |-> "",
                           pub |-> NoPub]
               /\ proc' = [proc EXCEPT ![p] = Returned(p, queue)]
               /\ pubQueue' = queue
               /\ failedSince' = [failedSince EXCEPT ![id] = TRUE]
          ELSE /\ LET local == PublishCheck(proc[p].pub)
                       res == IF local # "" THEN local ELSE outcome
                   IN proc' = [proc EXCEPT ![p].pc =
                                  IF res \in PublishErrors \cup {local}
                                  THEN "pn_failed"
                                  ELSE "pn_published",
                               ![p].res = res]
               /\ UNCHANGED <<resp, pubQueue, failedSince>>
    /\ UNCHANGED <<domain, now, nonPubVars, pubs>>

\* Policy.PublishNow after Publish failed: _ = MarkAsFailed(id, err.Error()),
\* return the error
PublishNowMarkFailed(p) ==
    /\ proc[p].pc = "pn_failed"
    /\ LET id == proc[p].id
           queue == IF p = "sched" THEN Tail(pubQueue) ELSE pubQueue
       IN /\ pubs' = [pubs EXCEPT ![id] = UpdateStatus(pubs[id], "error", proc[p].res)]
          /\ resp' = [op |-> "publish", id |-> id, err |-> proc[p].res, remote |-> "",
                      pub |-> NoPub]
          /\ proc' = [proc EXCEPT ![p] = Returned(p, queue)]
          /\ pubQueue' = queue
          /\ failedSince' = [failedSince EXCEPT ![id] = TRUE]
    /\ UNCHANGED <<domain, now, nonPubVars>>

\* Policy.PublishNow after Publish succeeded: MarkAsPublished(id, remote id)
PublishNowMarkPublished(p) ==
    /\ proc[p].pc = "pn_published"
    /\ pubs' = [pubs EXCEPT ![proc[p].id] =
                   SetPublished(pubs[proc[p].id], proc[p].res, now)]
    /\ proc' = [proc EXCEPT ![p].pc = "pn_refresh"]
    /\ UNCHANGED <<domain, now, nonPubVars, pubQueue, resp, failedSince>>

\* Policy.PublishNow, its last line: return GetPublication(id)
PublishNowRefresh(p) ==
    /\ proc[p].pc = "pn_refresh"
    /\ LET id == proc[p].id
           queue == IF p = "sched" THEN Tail(pubQueue) ELSE pubQueue
       IN /\ resp' = [op |-> "publish", id |-> id, err |-> "",
                      remote |-> proc[p].res, pub |-> pubs[id]]
          /\ proc' = [proc EXCEPT ![p] = Returned(p, queue)]
          /\ pubQueue' = queue
    /\ UNCHANGED <<domain, now, nonPubVars, pubs, failedSince>>

\* Service.UpdatePublication to its Validate, behind Policy.SchedulePublication
\* for a schedule request: the policy's check of the time, GetByID,
\* IsEditable, the new status and scheduled_at in memory, the media of the
\* request written in place of the stored ones, Validate
UpdateRead(p, id, in) ==
    /\ p \in Http
    /\ proc[p].pc = "idle"
    /\ MayStart
    /\ pubs[id].status # "none"
    /\ LET pub == GetByID(pubs, id)
           set == IF in.kind = "clear"
                  THEN [pub EXCEPT !.scheduledAt = NoTime, !.status = "draft"]
                  ELSE IF in.kind = "schedule"
                  THEN [pub EXCEPT !.scheduledAt = in.at, !.status = "scheduled"]
                  ELSE pub
           new == [set EXCEPT !.nMedia = in.nMedia]
           early == IF in.kind = "schedule" /\ in.api = "post"
                       /\ Before(in.at, now)
                    THEN "time_in_past"
                    ELSE IF ~IsEditable(pub) THEN "not_editable"
                    ELSE ""
           err == IF early # "" THEN early ELSE Validate(new, now)
       IN /\ pubs' = IF early = "" /\ in.nMedia > 0
                     THEN [pubs EXCEPT ![id].nMedia = in.nMedia]
                     ELSE pubs
          /\ IF err # ""
             THEN /\ resp' = [op |-> in.kind, id |-> id, err |-> err,
                              remote |-> "", pub |-> NoPub]
                  /\ UNCHANGED proc
             ELSE /\ proc' = [proc EXCEPT ![p] =
                        [IdleProc EXCEPT !.pc = "up_write", !.op = in.kind,
                                         !.id = id, !.pub = new]]
                  /\ UNCHANGED resp
    /\ UNCHANGED <<domain, now, nonPubVars, pubQueue, failedSince>>

\* Service.UpdatePublication, its end: publications.Update(pub), return pub
UpdateWrite(p) ==
    /\ proc[p].pc = "up_write"
    /\ LET id == proc[p].id
       IN /\ pubs' = [pubs EXCEPT ![id] =
                         Update(pubs[id], proc[p].pub.status, proc[p].pub.scheduledAt)]
          /\ resp' = [op |-> proc[p].op, id |-> id, err |-> "", remote |-> "",
                      pub |-> proc[p].pub]
          /\ failedSince' = [failedSince EXCEPT ![id] =
                                IF proc[p].op = "schedule" THEN FALSE ELSE @]
    /\ proc' = [proc EXCEPT ![p] = IdleProc]
    /\ UNCHANGED <<domain, now, nonPubVars, pubQueue>>

\* Scheduler.process, Policy.ProcessScheduledPublications:
\* GetScheduledForPublishing, then PublishNow for each publication it gave
SchedulerSweep ==
    /\ proc["sched"].pc = "idle"
    /\ MayStart
    /\ \E q \in GetScheduledForPublishing(pubs, now) :
          /\ Len(q) > 0
          /\ pubQueue' = q
          /\ proc' = [proc EXCEPT !["sched"] =
                [IdleProc EXCEPT !.pc = "pn_read", !.op = "publish", !.id = Head(q)]]
    /\ UNCHANGED <<domain, now, nonPubVars, pubs, resp, failedSince>>

\* time passes
PubTick ==
    /\ now < MaxPubTime
    /\ now' = now + 1
    /\ UNCHANGED <<domain, nonPubVars, pubVars>>

\* the sync variables in the specifications that do not use them
SyncUnused ==
    /\ commentSync = [m \in Media |-> NoRow]
    /\ accountSync = [a \in Accounts |-> NoRow]
    /\ sweep = Idle
    /\ consecFails = [u \in Media \cup Accounts |-> 0]

\* one draft in the table, nothing under way
InitPub ==
    /\ domain = "publication"
    /\ now = 0
    /\ PubUnused
    /\ SyncUnused
    /\ LifeUnused
    /\ RestUnused

\* the same, for requests that come one after the other
InitPubSeq ==
    /\ domain = "publication_seq"
    /\ now = 0
    /\ PubUnused
    /\ SyncUnused
    /\ LifeUnused
    /\ RestUnused

NextPub ==
    \/ \E p \in Procs, id \in PubIds : PublishNowRead(p, id)
    \/ \E p \in Procs, o \in CredentialErrors \cup PublishErrors \cup RemoteIds :
          PublishNowRemote(p, o)
    \/ \E p \in Procs : PublishNowMarkFailed(p)
    \/ \E p \in Procs : PublishNowMarkPublished(p)
    \/ \E p \in Procs : PublishNowRefresh(p)
    \/ \E p \in Http, id \in PubIds, in \in UpdateInputs : UpdateRead(p, id, in)
    \/ \E p \in Http : UpdateWrite(p)
    \/ SchedulerSweep
    \/ PubTick

SpecPub == InitPub /\ [][NextPub]_vars

SpecPubSeq == InitPubSeq /\ [][NextPub]_vars

(***************************************************************************)
(* Properties of the publication state machine.                            *)
(***************************************************************************)
\* C5: once a publication's status is published, no step of the engine (an
\* edit, a schedule, a clear-schedule, a publish-now, a scheduler sweep, a
\* concurrent publish attempt that finishes later) changes its status
C5_PublishedIsTerminal ==
    [][\A id \in PubIds :
          pubs[id].status = "published" => pubs'[id].status = "published"]_vars

\* C6: a publish attempt on a draft or scheduled publication that fails at
\* any step of the pipeline (credentials, container creation, polling, commit)
\* leaves the publication in status error with the failure message, and
\* returns the failure to the caller
C6_PipelineFailureRecorded ==
    [][\A p \in Procs : \A o \in CredentialErrors \cup PublishErrors :
          (\/ (o \in CredentialErrors /\ PublishNowRemote(p, o))
           \/ (proc[p].res = o /\ PublishNowMarkFailed(p)))
          => /\ pubs'[proc[p].id].status = "error"
             /\ pubs'[proc[p].id].errorMessage = o
             /\ resp'.err = o]_vars

C8_ErrorIsNotADeadEnd ==
    [][\A p \in Http, id \in PubIds, in \in UpdateInputs :
          (/\ pubs[id].status = "error"
           /\ (in.kind = "schedule" => in.at >= now)
           /\ UpdateRead(p, id, in))
          => /\ proc'[p].pc = "up_write"
             /\ proc'[p].pub.status \in {"draft", "scheduled"}]_vars

\* C8, amended: every edit, schedule, clear-schedule and publish-now request
\* that finds the publication in status error is rejected and writes nothing
C8_ErrorIsRejected ==
    [][\A p \in Procs, id \in PubIds :
          pubs[id].status = "error"
          => /\ \A in \in UpdateInputs :
                   UpdateRead(p, id, in)
                   => /\ resp'.err \in {"not_editable", "time_in_past"}
                      /\ proc'[p].pc = "idle"
                      /\ pubs' = pubs
             /\ PublishNowRead(p, id)
                   => /\ resp'.err = "not_editable"
                      /\ proc'[p].pc # "pn_remote"
                      /\ pubs' = pubs]_vars

\* an edit of a publication in status error has been turned down
C8_Witness ==
    /\ resp.op \in {"edit", "clear", "schedule"}
    /\ resp.err = "not_editable"
    /\ pubs[resp.id].status = "error"

\* C9: after a publish attempt on a publication has failed, no sweep of the
\* publication scheduler attempts it again unless a user re-schedules it
C9_NoAutomaticRetry ==
    [][\A id \in PubIds :
          (PublishNowRead("sched", id) /\ proc'["sched"].pc = "pn_remote")
          => ~failedSince[id]]_vars

(***************************************************************************)
(* The life cycle of a periodic task: Start, Stop and run of the           *)
(* publication scheduler and of the comment and direct sync schedulers.    *)
(***************************************************************************)
\* the context a run goroutine works under: the one handed to Start, or for
\* the sync schedulers its child made by context.WithCancel
CtxDone(g) == parentDone \/ run[g].ctxDone

\* Scheduler.Start without its `if s.running` check
StartLockUnguarded(g) ==
    /\ ~panicked
    /\ caller.starter[g] = "idle"
    /\ sched' = [sched EXCEPT !.running = TRUE,
                    !.cancel = IF kind # "publication" THEN g ELSE @]
    /\ caller' = [caller EXCEPT !.starter[g] = "start_spawn"]
    /\ stopReturned' = FALSE
    /\ UNCHANGED <<nonLifeVars, kind, run, parentDone, panicked>>

\* Scheduler.Start under the mutex: return if running, else running = true
\* (and, in the sync schedulers, ctx, s.cancel = context.WithCancel(ctx))
StartLock(g) ==
    /\ ~panicked
    /\ caller.starter[g] = "idle"
    /\ IF sched.running
       THEN /\ caller' = [caller EXCEPT !.starter[g] = "noop"]
            /\ UNCHANGED sched
       ELSE /\ sched' = [sched EXCEPT !.running = TRUE,
                            !.cancel = IF kind # "publication" THEN g ELSE @]
            /\ caller' = [caller EXCEPT !.starter[g] = "start_spawn"]
    /\ stopReturned' = FALSE
    /\ UNCHANGED <<nonLifeVars, kind, run, parentDone, panicked>>

\* Scheduler.Start after the mutex: s.wg.Add(1); go s.run(ctx)
StartSpawn(g) ==
    /\ ~panicked
    /\ caller.starter[g] = "start_spawn"
    /\ sched' = [sched EXCEPT !.wg = @ + 1]
    /\ run' = [run EXCEPT ![g].pc = "start"]
    /\ caller' = [caller EXCEPT !.starter[g] = "started"]
    /\ UNCHANGED <<nonLifeVars, kind, parentDone, panicked, stopReturned>>

\* Scheduler.Stop under the mutex: return if not running, else running = false
\* (and, in the sync schedulers, cancel := s.cancel)
StopLock ==
    /\ ~panicked
    /\ caller.stopper.pc = "idle"
    /\ caller.stopper.left > 0
    /\ IF ~sched.running
       THEN /\ caller' = [caller EXCEPT !.stopper.left = @ - 1]
            /\ UNCHANGED sched
       ELSE /\ sched' = [sched EXCEPT !.running = FALSE]
            /\ caller' = [caller EXCEPT !.stopper.left = @ - 1,
                                        !.stopper.pc = "stop_signal",
                                        !.stopper.cancel = sched.cancel]
    /\ UNCHANGED <<nonLifeVars, kind, run, parentDone, panicked, stopReturned>>

\* Scheduler.Stop after the mutex: cancel() in the sync schedulers, then
\* close(s.stopCh), which panics on a closed channel
StopSignal ==
    /\ ~panicked
    /\ caller.stopper.pc = "stop_signal"
    /\ run' = IF caller.stopper.cancel # 0
              THEN [run EXCEPT ![caller.stopper.cancel].ctxDone = TRUE]
              ELSE run
    /\ IF sched.stopCh = "closed"
       THEN /\ panicked' = TRUE
            /\ UNCHANGED <<sched, caller>>
       ELSE /\ sched' = [sched EXCEPT !.stopCh = "closed"]
            /\ caller' = [caller EXCEPT !.stopper.pc = "stop_wait",
                                        !.stopper.cancel = 0]
            /\ UNCHANGED panicked
    /\ UNCHANGED <<nonLifeVars, kind, parentDone, stopReturned>>

\* Scheduler.Stop, its end: s.wg.Wait() returns when the counter is 0
StopWait ==
    /\ ~panicked
    /\ caller.stopper.pc = "stop_wait"
    /\ sched.wg = 0
    /\ caller' = [caller EXCEPT !.stopper.pc = "idle"]
    /\ stopReturned' = TRUE
    /\ UNCHANGED <<nonLifeVars, kind, sched, run, parentDone, panicked>>

\* Scheduler.run, its beginning. Publication scheduler: NewTicker, then
\* s.process(ctx) at once. Sync schedulers: NewTicker, then the select on
\* time.After, stopCh and ctx.Done(), where the timer cannot be ready yet
RunBegin(g) ==
    /\ ~panicked
    /\ run[g].pc = "start"
    /\ IF kind = "publication"
       THEN /\ \E n \in 1..SweepUnits :
                  run' = [run EXCEPT ![g].pc = "sweep", ![g].left = n]
            /\ UNCHANGED sched
       ELSE IF sched.stopCh = "closed" \/ CtxDone(g)
       THEN /\ run' = [run EXCEPT ![g].pc = "done"]
            /\ sched' = [sched EXCEPT !.wg = @ - 1]
       ELSE /\ run' = [run EXCEPT ![g].pc = "delay"]
            /\ UNCHANGED sched
    /\ UNCHANGED <<nonLifeVars, kind, caller, parentDone, panicked, stopReturned>>

\* Scheduler.run of a sync scheduler: case <-time.After(...): s.process(ctx)
RunDelayElapsed(g) ==
    /\ ~panicked
    /\ run[g].pc = "delay"
    /\ \E n \in 1..SweepUnits :
          run' = [run EXCEPT ![g].pc = "sweep", ![g].left = n]
    /\ UNCHANGED <<nonLifeVars, kind, sched, caller, parentDone, panicked, stopReturned>>

\* s.process(ctx), one unit of its work: a remote call or a status poll made
\* under ctx, which a cancelled ctx does not let happen
RunSweepWork(g) ==
    /\ ~panicked
    /\ run[g].pc = "sweep"
    /\ run[g].left > 0
    /\ ~CtxDone(g)
    /\ run' = [run EXCEPT ![g].left = @ - 1]
    /\ UNCHANGED <<nonLifeVars, kind, sched, caller, parentDone, panicked, stopReturned>>

\* s.process(ctx) returns: its work is done, or ctx is cancelled
RunSweepDone(g) ==
    /\ ~panicked
    /\ run[g].pc = "sweep"
    /\ run[g].left = 0 \/ CtxDone(g)
    /\ run' = [run EXCEPT ![g].pc = "loop", ![g].left = 0]
    /\ UNCHANGED <<nonLifeVars, kind, sched, caller, parentDone, panicked, stopReturned>>

\* Scheduler.run: case <-ticker.C: s.process(ctx)
RunTick(g) ==
    /\ ~panicked
    /\ run[g].pc = "loop"
    /\ run[g].tick = 1
    /\ \E n \in 1..SweepUnits :
          run' = [run EXCEPT ![g].pc = "sweep", ![g].tick = 0,
                             ![g].tickIn = "", ![g].left = n]
    /\ UNCHANGED <<nonLifeVars, kind, sched, caller, parentDone, panicked, stopReturned>>

\* Scheduler.run: case <-s.stopCh / case <-ctx.Done(): return, with the
\* deferred ticker.Stop() and s.wg.Done()
RunExit(g) ==
    /\ ~panicked
    /\ run[g].pc \in {"delay", "loop"}
    /\ sched.stopCh = "closed" \/ CtxDone(g)
    /\ run' = [run EXCEPT ![g].pc = "done", ![g].tick = 0, ![g].tickIn = ""]
    /\ sched' = [sched EXCEPT !.wg = @ - 1]
    /\ UNCHANGED <<nonLifeVars, kind, caller, parentDone, panicked, stopReturned>>

\* the ticker of a run goroutine fires: its channel holds one tick at most
TickerFires(g) ==
    /\ ~panicked
    /\ run[g].pc \in {"delay", "sweep", "loop"}
    /\ run[g].tick = 0
    /\ run' = [run EXCEPT ![g].tick = 1, ![g].tickIn = run[g].pc]
    /\ UNCHANGED <<nonLifeVars, kind, sched, caller, parentDone, panicked, stopReturned>>

\* the context handed to Start is cancelled (App.Run: case <-ctx.Done())
ParentCancel ==
    /\ ~panicked
    /\ ~parentDone
    /\ parentDone' = TRUE
    /\ UNCHANGED <<nonLifeVars, kind, sched, caller, run, panicked, stopReturned>>

\* a new scheduler; some goroutines will call Start, another one Stop
InitLife ==
    /\ domain = "lifecycle"
    /\ now = 0
    /\ SyncUnused
    /\ PubUnused
    /\ RestUnused
    /\ kind \in {"publication", "comment", "direct"}
    /\ sched = NewScheduler
    /\ caller = [starter |-> [g \in Runs |-> "idle"],
                 stopper |-> [pc |-> "idle", left |-> MaxStops, cancel |-> 0]]
    /\ run = [g \in Runs |-> NoRun]
    /\ parentDone = FALSE
    /\ panicked = FALSE
    /\ stopReturned = FALSE

NextLife ==
    \/ \E g \in Runs : StartLock(g)
    \/ \E g \in Runs : StartSpawn(g)
    \/ StopLock
    \/ StopSignal
    \/ StopWait
    \/ \E g \in Runs : RunBegin(g)
    \/ \E g \in Runs : RunDelayElapsed(g)
    \/ \E g \in Runs : RunSweepWork(g)
    \/ \E g \in Runs : RunSweepDone(g)
    \/ \E g \in Runs : RunTick(g)
    \/ \E g \in Runs : RunExit(g)
    \/ \E g \in Runs : TickerFires(g)
    \/ ParentCancel

SpecLife == InitLife /\ [][NextLife]_vars

\* C10: when a Stop on a periodic task has returned, no sweep of the task is
\* in flight and none starts afterwards, however Start and Stop interleave
C10_StoppedMeansQuiet ==
    stopReturned => \A g \in Runs : run[g].pc # "sweep"

\* C11: once Stop has signalled and waits for the work in flight, a sweep
\* that was running does no further unit of work: it sees the cancellation
C11_StopCancelsWorkInFlight ==
    [][\A g \in Runs :
          RunSweepWork(g) => caller.stopper.pc # "stop_wait"]_vars

\* no Stop has found the task running so far
NoStopYet == sched.stopCh = "open" /\ caller.stopper.pc = "idle"

\* C12: whatever the interleaving of the Start calls on one task, at most
\* one of them launches a run goroutine; the others return without effect
C12_StartIsIdempotent ==
    NoStopYet => Cardinality({g \in Runs : caller.starter[g] # "noop"
                                              /\ caller.starter[g] # "idle"}) <= 1

\* a Start has returned as a no-op while the loop of another one is sweeping
C12_Witness ==
    /\ NoStopYet
    /\ \E g, h \in Runs :
          caller.starter[g] = "noop" /\ run[h].pc = "sweep"

(***************************************************************************)
(* Cache reads with on-demand drain: Service.getCommentsWithCache of the   *)
(* comment domain and Service.GetMessages of the direct domain.            *)
(***************************************************************************)
\* Service.syncMessagesFromInstagram: page through GetMessages, save each page
\* as it comes, then convSyncRepo.UpdateSyncStatus{LastSyncedAt: now,
\* SyncComplete: true}; an error returns before the status is written
SyncMessagesFromInstagram(row, t, ok) ==
    IF ok THEN UpdateSyncStatus(row, t, "", TRUE) ELSE row

\* how a drain can end: well; with an error before anything was saved; with
\* an error after rows were saved and before the status was written
DrainOutcomes == {"ok", "fetch_err", "late_err"}

\* Service.getCommentsWithCache: GetSyncStatus, needsSync, the drain if so,
\* `if syncStatus != nil { serve the cache } else { return nil, err }`, then
\* repo.GetByMediaID
GetCommentsWithCache(m, outcome) ==
    /\ domain = "read"
    /\ LET row == commentSync[m]
           needsSync == NeedsSync(row, now)
           ok == outcome = "ok"
       IN /\ ~needsSync => ok
          /\ commentSync' =
                IF needsSync
                THEN [commentSync EXCEPT ![m] = SyncCommentsFromInstagram(row, now, ok)]
                ELSE commentSync
          /\ cached' =
                IF needsSync /\ outcome \in {"ok", "late_err"}
                THEN [cached EXCEPT ![m] = TRUE]
                ELSE cached
          /\ read' = [op |-> "comments", unit |-> m, row |-> row, at |-> now,
                      hadCache |-> cached[m], drained |-> needsSync,
                      drainOk |-> needsSync /\ ok,
                      err |-> needsSync /\ ~ok /\ ~row.present]
    /\ UNCHANGED <<nonReadVars, convSync>>

\* Service.GetMessages with repositories: GetSyncStatus, needsSync, the drain
\* if so, whose error is printed and dropped, then msgRepo.GetByConversationID
GetMessages(c, outcome) ==
    /\ domain = "read"
    /\ LET row == convSync[c]
           needsSync == NeedsSync(row, now)
           ok == outcome = "ok"
       IN /\ ~needsSync => ok
          /\ convSync' =
                IF needsSync
                THEN [convSync EXCEPT ![c] = SyncMessagesFromInstagram(row, now, ok)]
                ELSE convSync
          /\ cached' =
                IF needsSync /\ outcome \in {"ok", "late_err"}
                THEN [cached EXCEPT ![c] = TRUE]
                ELSE cached
          /\ read' = [op |-> "messages", unit |-> c, row |-> row, at |-> now,
                      hadCache |-> cached[c], drained |-> needsSync,
                      drainOk |-> needsSync /\ ok, err |-> FALSE]
    /\ UNCHANGED <<nonReadVars, commentSync>>

\* the tables as earlier runs of the service left them: a media unit unknown,
\* or drained well at PriorTime, or with failed sweep attempts behind it (up
\* to the limit, which marks it failed) with or without an earlier drain; a
\* conversation unknown or drained well at PriorTime
InitRead ==
    /\ domain = "read"
    /\ now = 0
    /\ \E r \in [Media -> 0..MaxRetries], c \in [Media -> BOOLEAN] :
          /\ \A m \in Media : r[m] = 0 => ~c[m]
          /\ \E fresh \in SUBSET {m \in Media : r[m] = 0} :
                /\ commentSync = [m \in Media |->
                      IF m \in fresh
                      THEN SyncCommentsFromInstagram(NoRow, PriorTime, TRUE)
                      ELSE PriorRow(r[m])]
                /\ \E k \in SUBSET Conversations :
                      /\ convSync = [v \in Conversations |->
                            IF v \in k
                            THEN SyncMessagesFromInstagram(NoRow, PriorTime, TRUE)
                            ELSE NoRow]
                      /\ cached = [u \in Media \cup Conversations |->
                            IF u \in Media THEN c[u] \/ u \in fresh ELSE u \in k]
    /\ accountSync = [a \in Accounts |-> NoRow]
    /\ sweep = Idle
    /\ consecFails = [u \in Media \cup Accounts |-> 0]
    /\ read = NoRead
    /\ PubUnused
    /\ LifeUnused
    /\ DrainUnused
    /\ HideUnused
    /\ IgUnused

NextRead ==
    \/ \E m \in Media, o \in DrainOutcomes : GetCommentsWithCache(m, o)
    \/ \E c \in Conversations, o \in DrainOutcomes : GetMessages(c, o)
    \/ Tick

SpecRead == InitRead /\ [][NextRead]_vars

C14_FailedDrainServesCacheOrFails ==
    (read.op # "" /\ read.drained /\ ~read.drainOk) =>
       (read.err <=> ~read.hadCache)

(***************************************************************************)
(* The drain loops: Service.syncCommentsFromInstagram of the comment       *)
(* domain, Service.syncMessagesFromInstagram and Service.SyncConversations *)
(* of the direct domain.                                                   *)
(***************************************************************************)
\* const maxEmptyPages = 3 in Service.SyncConversations
MaxEmptyPages == 3

DrainKinds == {"comments", "messages", "conversations"}

\* what one page of the remote listing can look like: its items, whether
\* more pages are reported, whether a cursor comes with it
Pages == [items : SUBSET Items, hasMore : BOOLEAN, cursor : {"", "next"}]

\* what the Instagram adapter hands the service of a page: every comment and
\* every conversation, and the messages that have a text or an attachment of
\* a known type
AdaptPage(k, items) == IF k = "messages" THEN items \ Unsupported ELSE items

\* INSERT without its ON CONFLICT clause
InsertBatch(table, batch) ==
    [i \in DOMAIN table |-> IF i \in batch THEN table[i] + 1 ELSE table[i]]

\* {Comment,Message,Conversation}Postgres.UpsertBatch: for each record of the
\* batch INSERT ... ON CONFLICT (id) DO UPDATE, so an id that has a row keeps
\* its one row
UpsertRecords(table, batch) ==
    [i \in DOMAIN table |->
        IF i \in batch /\ table[i] = 0 THEN 1 ELSE table[i]]

\* the save goroutine started only for a page that is not the last
SavePageBeforeBreak(pending, k, got, last) ==
    IF k # "comments" /\ got # {} /\ ~last
    THEN [pending EXCEPT ![got] = @ + 1] ELSE pending

\* if len(result.Messages) > 0 { wg.Add(1); go func(msgs) {...}(messages) }:
\* in the direct domain every page with records gets a save goroutine
SavePage(pending, k, got, last) ==
    IF k # "comments" /\ got # {}
    THEN [pending EXCEPT ![got] = @ + 1] ELSE pending

\* a return path that leaves out wg.Wait()
WaitSkipped(pending) == TRUE

\* wg.Wait() returns: every save goroutine has called wg.Done()
WaitDone(pending) == \A b \in DOMAIN pending : pending[b] = 0

\* the check of errCh after the loop left out
ErrChIgnored(errCh) == FALSE

\* select { case err := <-errCh: ...; default: }: an error is waiting
ErrChReady(errCh) == errCh

\* the loop is entered: cursor := "", no page fetched, no save under way
DrainStart(k) ==
    /\ domain = "drain"
    /\ drain.pc = "idle"
    /\ drain.run < MaxDrains
    /\ drain' = [NoDrain EXCEPT !.kind = k, !.pc = "loop", !.run = drain.run + 1]
    /\ UNCHANGED <<nonDrainVars, store, drainStatus>>

\* the counter of consecutive empty pages after one more page of n records,
\* where the loop keeps one: len(result.Conversations) == 0 ? emptyPages++ : 0
EmptyPagesAfter(k, emptyPages, n) ==
    IF k # "conversations" THEN emptyPages
    ELSE IF n = 0 THEN emptyPages + 1 ELSE 0

\* the loop body from the fetch on, for a page that arrived: count or
\* collect it, start its save, and break or go on with the next cursor
DrainFetch(page) ==
    /\ domain = "drain"
    /\ drain.pc = "loop"
    /\ drain.kind = "comments" \/ ~ErrChReady(drain.errCh)
    /\ drain.pages < MaxPages
    /\ LET k == drain.kind
           got == AdaptPage(k, page.items)
           emptyPages == EmptyPagesAfter(k, drain.emptyPages, Cardinality(got))
           stopEmpty == k = "conversations" /\ got = {}
                           /\ emptyPages >= MaxEmptyPages
           last == ~page.hasMore \/ page.cursor = ""
       IN drain' = [drain EXCEPT
                       !.pages = @ + 1,
                       !.emptyPages = emptyPages,
                       !.emptyRun = IF got = {} /\ ~last THEN @ + 1 ELSE 0,
                       !.seen = @ \cup page.items,
                       !.collected = IF k = "comments" THEN @ \cup got ELSE @,
                       !.pending = SavePage(@, k, got, last),
                       !.pc = IF stopEmpty \/ last THEN "wait" ELSE "loop"]
    /\ UNCHANGED <<nonDrainVars, store, drainStatus>>

\* the fetch returns an error: wg.Wait(), return it
DrainFetchFails ==
    /\ domain = "drain"
    /\ drain.pc = "loop"
    /\ drain.kind = "comments" \/ ~ErrChReady(drain.errCh)
    /\ drain.pages < MaxPages
    /\ drain' = [drain EXCEPT !.pc = "wait", !.result = "fetch_err"]
    /\ UNCHANGED <<nonDrainVars, store, drainStatus>>

\* the top of the loop in the direct domain: case <-ctx.Done(), or
\* case err := <-errCh: wg.Wait(), return the error
DrainInterrupted(why) ==
    /\ domain = "drain"
    /\ drain.pc = "loop"
    /\ drain.kind # "comments"
    /\ why = "save_err" => ErrChReady(drain.errCh)
    /\ drain' = [drain EXCEPT !.pc = "wait", !.result = why,
                              !.errCh = IF why = "save_err" THEN FALSE ELSE @]
    /\ UNCHANGED <<nonDrainVars, store, drainStatus>>

\* a save goroutine of the direct domain ends: UpsertBatch of its page (the
\* statements of a batch run in one implicit transaction), an error sent to
\* errCh if errCh is empty, then wg.Done()
DrainSaveDone(b, ok) ==
    /\ domain = "drain"
    /\ drain.pending[b] > 0
    /\ drain' = [drain EXCEPT !.pending[b] = @ - 1,
                              !.errCh = @ \/ ~ok,
                              !.saveFailed = @ \/ ~ok]
    /\ store' = IF ok THEN UpsertRecords(store, b) ELSE store
    /\ UNCHANGED <<nonDrainVars, drainStatus>>

\* what the end of a drain comes to: everything is written, or the upsert of
\* the comments collected fails, or the write of the sync status fails
FinishOutcomes == {"ok", "save_err", "status_err"}

\* the return: wg.Wait(), then the error that ended the loop, or after the
\* loop the error waiting in errCh (comments: UpsertBatch of what was
\* collected), else UpdateSyncStatus{LastSyncedAt: now, SyncComplete: true}
DrainFinish(outcome) ==
    /\ domain = "drain"
    /\ drain.pc = "wait"
    /\ WaitDone(drain.pending)
    /\ outcome = "save_err" => drain.kind = "comments"
    /\ LET result == IF drain.result # "" THEN drain.result
                     ELSE IF drain.kind # "comments" /\ ErrChReady(drain.errCh)
                          THEN "save_err"
                          ELSE outcome
       IN /\ drain' = [drain EXCEPT
                          !.pc = "idle",
                          !.errCh = FALSE,
                          !.saveFailed = @ \/ (drain.kind = "comments"
                                                  /\ result = "save_err"),
                          !.result = result]
          /\ store' = IF drain.kind = "comments" /\ result \in {"ok", "status_err"}
                      THEN UpsertRecords(store, drain.collected)
                      ELSE store
          /\ drainStatus' = IF result = "ok"
                            THEN UpdateSyncStatus(drainStatus, now, "", TRUE)
                            ELSE drainStatus
    /\ UNCHANGED nonDrainVars

\* the unit was never drained, or an earlier run of the service drained it
InitDrain ==
    /\ domain = "drain"
    /\ now = 0
    /\ SyncUnused
    /\ PubUnused
    /\ LifeUnused
    /\ ReadUnused
    /\ HideUnused
    /\ IgUnused
    /\ drain = NoDrain
    /\ \E before \in SUBSET Items :
          /\ store = [i \in Items |-> IF i \in before THEN 1 ELSE 0]
          /\ drainStatus = IF before = {} THEN NoRow
                           ELSE UpdateSyncStatus(NoRow, PriorTime, "", TRUE)

NextDrain ==
    \/ \E k \in DrainKinds : DrainStart(k)
    \/ \E page \in Pages : DrainFetch(page)
    \/ DrainFetchFails
    \/ \E why \in {"save_err", "cancelled"} : DrainInterrupted(why)
    \/ \E b \in Batches, ok \in BOOLEAN : DrainSaveDone(b, ok)
    \/ \E o \in FinishOutcomes : DrainFinish(o)

SpecDrain == InitDrain /\ [][NextDrain]_vars

\* C15: in every drain, once three consecutive pages have come empty, each
\* with a cursor and with more pages reported, no further page is fetched
C15_ThreeEmptyPagesStopTheDrain ==
    [][(\E page \in Pages : DrainFetch(page)) => drain.emptyRun < MaxEmptyPages]_vars

\* the sync-status row a drain that completed at time t leaves
Completed(row, t) ==
    /\ row.present
    /\ row.lastSyncedAt = t
    /\ row.syncComplete
    /\ row.nextCursor = ""

\* C23, as the specification states it: after a drain has completed, the
\* table holds every item of every page the remote listing gave, and the
\* sync status has lastSyncedAt = the completion time, syncComplete = true and
\* no nextCursor
C23_DrainCachesEveryItem ==
    (drain.pc = "idle" /\ drain.result = "ok")
    => /\ \A i \in drain.seen : store[i] = 1
       /\ Completed(drainStatus, now)

\* C23, amended: after a drain has completed, the table holds every item of
\* every page except the messages the adapter drops (those with neither text
\* nor an attachment of a known type), and the sync status has lastSyncedAt =
\* the completion time, syncComplete = true and no nextCursor
C23_DrainCachesEveryAdaptedItem ==
    (drain.pc = "idle" /\ drain.result = "ok")
    => /\ \A i \in AdaptPage(drain.kind, drain.seen) : store[i] = 1
       /\ Completed(drainStatus, now)

\* a first drain of messages over two pages or more that completed and left
\* both supported items in a table that had neither
C23_Witness ==
    /\ drain.pc = "idle"
    /\ drain.result = "ok"
    /\ drain.run = 1
    /\ drain.kind = "messages"
    /\ drain.pages >= 2
    /\ drain.seen = Items
    /\ store = [i \in Items |-> IF i \in Unsupported THEN 0 ELSE 1]
    /\ Completed(drainStatus, now)

\* C24: a save never leaves more than one row for an id, and gives an id
\* that has its row no second one: a drain whose pages carry the ids an
\* earlier drain cached adds no records
C24_RerunAddsNoRecords ==
    [][\A i \in Items :
          /\ store[i] <= 1
          /\ store'[i] <= 1
          /\ store[i] = 1 => store'[i] = 1]_vars

\* a second drain has completed over pages that carry ids the first one
\* cached, and each of them has its one row
C24_Witness ==
    /\ drain.pc = "idle"
    /\ drain.result = "ok"
    /\ drain.run = 2
    /\ drain.pages >= 2
    /\ AdaptPage(drain.kind, drain.seen) # {}
    /\ \A i \in AdaptPage(drain.kind, drain.seen) : store[i] = 1
    /\ Completed(drainStatus, now)

\* C29: a drain that has returned, on whichever path, has no page save
\* still running
C29_ReturnsAfterEverySave ==
    drain.pc = "idle" => \A b \in Batches : drain.pending[b] = 0

\* a drain of the direct domain that was cancelled has returned after a page
\* save of its own had failed
C29_Witness ==
    /\ drain.pc = "idle"
    /\ drain.kind # "comments"
    /\ drain.result = "cancelled"
    /\ drain.saveFailed
    /\ drain.pages >= 2

\* C30, as the specification states it: a drain one of whose page saves
\* failed returns the first error of a save
C30_SaveFailureIsReturned ==
    (drain.pc = "idle" /\ drain.saveFailed) => drain.result = "save_err"

\* C30, amended: a drain one of whose page saves failed is never reported as
\* successful: it returns the first error of a save, or the fetch error or the
\* cancellation that ended its loop before that error was read
C30_SaveFailureIsNeverSuccess ==
    (drain.pc = "idle" /\ drain.saveFailed)
    => drain.result \in {"save_err", "fetch_err", "cancelled"}

\* a drain of the direct domain has returned the error of a save after three
\* pages, with both supported items in the table: a save failed and others
\* did not
C30_Witness ==
    /\ drain.pc = "idle"
    /\ drain.kind # "comments"
    /\ drain.saveFailed
    /\ drain.result = "save_err"
    /\ drain.pages >= 3

(***************************************************************************)
(* Hiding a comment while a drain of its media is under way:               *)
(* Service.Hide, CommentPostgres.UpdateHidden and CommentPostgres.         *)
(* UpsertBatch.                                                            *)
(***************************************************************************)
\* UPDATE comments SET is_hidden = $2 WHERE id = $1: no row, no change
UpdateHidden(row, hidden) ==
    IF row.present THEN [row EXCEPT !.hidden = hidden] ELSE row

\* INSERT ... ON CONFLICT (id) DO UPDATE SET like_count, text, author_id and
\* is_hidden = EXCLUDED.is_hidden
UpsertBatch(rows, batch) ==
    [k \in CommentIds |->
        IF batch[k] = "none" THEN rows[k]
        ELSE [present |-> TRUE, hidden |-> batch[k] = "hidden"]]

\* Service.Hide, first half: s.ig.HideComment (whose error is returned
\* with nothing changed)
HideRemote(k, hide) ==
    /\ domain = "hide"
    /\ hideCall.pc = "idle"
    /\ igHidden' = [igHidden EXCEPT ![k] = hide]
    /\ hideCall' = [pc |-> "update", id |-> k, hide |-> hide]
    /\ UNCHANGED <<nonHideVars, commentRows, fetched, locallySet>>

\* Service.Hide, second half: _ = s.repo.UpdateHidden(ctx, id, hide)
HideLocal ==
    /\ domain = "hide"
    /\ hideCall.pc = "update"
    /\ LET k == hideCall.id
       IN /\ commentRows' = [commentRows EXCEPT ![k] = UpdateHidden(@, hideCall.hide)]
          /\ locallySet' = [locallySet EXCEPT ![k] =
                IF commentRows[k].present
                THEN [set |-> TRUE, hidden |-> hideCall.hide]
                ELSE @]
    /\ hideCall' = NoHide
    /\ UNCHANGED <<nonHideVars, igHidden, fetched>>

\* Service.syncCommentsFromInstagram, its loop: the pages of s.ig.GetComments
\* collected in allComments, each comment as Instagram has it now
HideDrainFetch ==
    /\ domain = "hide"
    /\ fetched = NotFetched
    /\ fetched' = [k \in CommentIds |-> IF igHidden[k] THEN "hidden" ELSE "shown"]
    /\ UNCHANGED <<nonHideVars, igHidden, commentRows, hideCall, locallySet>>

\* Service.syncCommentsFromInstagram, after the loop: s.repo.UpsertBatch
HideDrainUpsert ==
    /\ domain = "hide"
    /\ fetched # NotFetched
    /\ commentRows' = UpsertBatch(commentRows, fetched)
    /\ fetched' = NotFetched
    /\ UNCHANGED <<nonHideVars, igHidden, hideCall, locallySet>>

InitHide ==
    /\ domain = "hide"
    /\ now = 0
    /\ SyncUnused
    /\ PubUnused
    /\ LifeUnused
    /\ ReadUnused
    /\ DrainUnused
    /\ HideUnused
    /\ IgUnused

NextHide ==
    \/ \E k \in CommentIds, hide \in BOOLEAN : HideRemote(k, hide)
    \/ HideLocal
    \/ HideDrainFetch
    \/ HideDrainUpsert

SpecHide == InitHide /\ [][NextHide]_vars

\* C16: the hidden flag a hide/unhide operation has written for a comment
\* stays as written until the next hide/unhide of that comment: no upsert of
\* remote data fetched before the hide changes it back
C16_LocalHideSurvivesStaleUpsert ==
    \A k \in CommentIds :
       (locallySet[k].set /\ ~(hideCall.pc = "update" /\ hideCall.id = k))
          => commentRows[k].hidden = locallySet[k].hidden

(***************************************************************************)
(* The Instagram publisher: Publisher.publishPost with its containers,     *)
(* Publisher.waitForContainer and Publisher.publishContainer.              *)
(***************************************************************************)
\* maxAttempts := 30 in Publisher.waitForContainer
MaxAttempts == 30

\* pub.Caption of the publication
Caption == "cap"

\* entity.MediaItem: its type and its URL
MediaItems == [type : {"image", "video"}, url : {"a", "b"}]

\* pub.Media: one item, or several for a carousel
MediaInputs == UNION {[1..n -> MediaItems] : n \in 1..MaxMedia}

\* status_code of a container, with one Instagram might add
ContainerStatuses ==
    {"FINISHED", "PUBLISHED", "ERROR", "EXPIRED", "IN_PROGRESS", "OTHER"}

\* error_message of a container
ErrorMessages == {"", "bad media"}

\* the error of a wait without the text the publisher puts before the detail
ContainerErrorBare(status, detail) == <<detail>>

\* fmt.Errorf("container error: %s", status.ErrorMessage) and
\* fmt.Errorf("container expired"), as the pieces of the text
ContainerError(status, detail) ==
    IF status = "ERROR" THEN <<"container error: ", detail>>
    ELSE <<"container expired">>

\* the text of an error is not empty
NonEmpty(msg) == \E j \in 1..Len(msg) : msg[j] # ""

\* the loop condition with the bound included
LoopConditionInclusive(i) == i <= MaxAttempts

\* for i := 0; i < maxAttempts; i++
LoopCondition(i) == i < MaxAttempts

\* childIDs[i] = childID, written to the mirrored index
SetChildMirrored(childIDs, i, childID) ==
    [childIDs EXCEPT ![Len(childIDs) + 1 - i] = childID]

\* childIDs[i] = childID
SetChild(childIDs, i, childID) == [childIDs EXCEPT ![i] = childID]

\* Publisher.createSingleMediaContainer: the CreateMediaContainerInput it
\* builds, which Instagram answers with container id
SingleMediaContainer(id, item, caption, isCarouselItem) ==
    [id |-> id,
     imageURL |-> IF item.type = "image" THEN item.url ELSE "",
     videoURL |-> IF item.type = "image" THEN "" ELSE item.url,
     mediaType |-> "",
     caption |-> IF ~isCarouselItem THEN caption ELSE "",
     isCarousel |-> isCarouselItem,
     children |-> <<>>]

\* Publisher.createCarouselContainer: the input for the parent container
CarouselContainer(id, caption, childIDs) ==
    [id |-> id, imageURL |-> "", videoURL |-> "", mediaType |-> "CAROUSEL",
     caption |-> caption, isCarousel |-> FALSE, children |-> childIDs]

\* the id Instagram gives the next container
NextId == Len(containers) + 1

\* Publisher.waitForContainer is entered for a container
NewWait(id, after) == [NoWait EXCEPT !.container = id, !.after = after]

\* Publisher.publishPost, its beginning: one media item gives a single
\* container with the caption, several start createCarouselContainer with
\* childIDs := make([]string, len(media))
PublishPost(media, ok) ==
    /\ domain = "publisher"
    /\ pubCall.pc = "idle"
    /\ pubCall.result = ""
    /\ IF Len(media) = 1
       THEN IF ok
            THEN /\ containers' = Append(containers,
                        SingleMediaContainer(NextId, media[1], Caption, FALSE))
                 /\ pubCall' = [pubCall EXCEPT !.pc = "wait", !.media = media,
                                               !.container = NextId]
                 /\ wait' = NewWait(NextId, "commit")
            ELSE /\ pubCall' = [pubCall EXCEPT !.media = media,
                                               !.result = "create_err"]
                 /\ UNCHANGED <<containers, wait>>
       ELSE /\ ok
            /\ pubCall' = [pubCall EXCEPT !.pc = "child", !.media = media,
                              !.i = 1, !.childIDs = [j \in 1..Len(media) |-> 0]]
            /\ UNCHANGED <<containers, wait>>
    /\ UNCHANGED <<nonIgVars, committed, waitFailed>>

\* where createCarouselContainer goes once childIDs[i] is written
AfterChild(call, childID) ==
    [call EXCEPT !.childIDs = SetChild(call.childIDs, call.i, childID),
                 !.i = @ + 1,
                 !.pc = IF call.i = Len(call.media) THEN "parent" ELSE "child"]

\* no carousel item is waited for
WaitsForNone(item) == FALSE

\* if m.Type == entity.MediaTypeVideo: the carousel items that are waited for
WaitsFor(item) == item.type = "video"

\* Publisher.createCarouselContainer, one turn of its loop up to the wait:
\* createSingleMediaContainer(m, "", true), and for a video waitForContainer
CreateCarouselItem(ok) ==
    /\ domain = "publisher"
    /\ pubCall.pc = "child"
    /\ LET item == pubCall.media[pubCall.i]
       IN IF ~ok
          THEN /\ pubCall' = [pubCall EXCEPT !.pc = "idle", !.result = "create_err"]
               /\ UNCHANGED <<containers, wait>>
          ELSE /\ containers' = Append(containers,
                      SingleMediaContainer(NextId, item, "", TRUE))
               /\ IF WaitsFor(item)
                  THEN /\ pubCall' = [pubCall EXCEPT !.pc = "wait"]
                       /\ wait' = NewWait(NextId, "child")
                  ELSE /\ pubCall' = AfterChild(pubCall, NextId)
                       /\ UNCHANGED wait
    /\ UNCHANGED <<nonIgVars, committed, waitFailed>>

\* Publisher.createCarouselContainer after the loop: the parent container
CreateCarouselParent(ok) ==
    /\ domain = "publisher"
    /\ pubCall.pc = "parent"
    /\ IF ok
       THEN /\ containers' = Append(containers,
                   CarouselContainer(NextId, Caption, pubCall.childIDs))
            /\ pubCall' = [pubCall EXCEPT !.pc = "wait", !.container = NextId]
            /\ wait' = NewWait(NextId, "commit")
       ELSE /\ pubCall' = [pubCall EXCEPT !.pc = "idle", !.result = "create_err"]
            /\ UNCHANGED <<containers, wait>>
    /\ UNCHANGED <<nonIgVars, committed, waitFailed>>

\* the caller of waitForContainer after a wait that ended well
AfterWait(call, w) ==
    IF w.after = "child" THEN AfterChild(call, w.container)
    ELSE [call EXCEPT !.pc = "commit"]

\* Publisher.waitForContainer, one turn of its loop: GetContainerStatus, the
\* switch on the status, then the select on ctx.Done() and the poll interval
Poll(status, detail, cancelled) ==
    /\ domain = "publisher"
    /\ pubCall.pc = "wait"
    /\ LET n == wait.attempts + 1
           w == [wait EXCEPT !.attempts = n, !.lastPoll = status,
                             !.allInProgress = @ /\ status = "IN_PROGRESS"]
       IN IF status \in {"FINISHED", "PUBLISHED"}
          THEN /\ wait' = [w EXCEPT !.end = "ok"]
               /\ pubCall' = [AfterWait(pubCall, wait) EXCEPT
                                 !.ready = @ \cup {wait.container}]
               /\ UNCHANGED waitFailed
          ELSE IF status \in {"ERROR", "EXPIRED"}
          THEN /\ wait' = [w EXCEPT !.end = "failed",
                                    !.msg = ContainerError(status, detail)]
               /\ pubCall' = [pubCall EXCEPT !.pc = "idle", !.result = "wait_err"]
               /\ waitFailed' = waitFailed \cup {wait.container}
          ELSE /\ wait' = IF cancelled THEN [w EXCEPT !.end = "cancelled"]
                          ELSE IF LoopCondition(n) THEN w
                          ELSE [w EXCEPT !.end = "not_ready"]
               /\ pubCall' = IF cancelled \/ ~LoopCondition(n)
                             THEN [pubCall EXCEPT !.pc = "idle", !.result = "wait_err"]
                             ELSE pubCall
               /\ UNCHANGED waitFailed
    /\ UNCHANGED <<nonIgVars, containers, committed>>

\* Publisher.waitForContainer: GetContainerStatus returns an error
PollFails ==
    /\ domain = "publisher"
    /\ pubCall.pc = "wait"
    /\ wait' = [wait EXCEPT !.attempts = @ + 1, !.lastPoll = "",
                            !.allInProgress = FALSE, !.end = "poll_err"]
    /\ pubCall' = [pubCall EXCEPT !.pc = "idle", !.result = "wait_err"]
    /\ UNCHANGED <<nonIgVars, containers, committed, waitFailed>>

\* Publisher.publishContainer: client.PublishMedia for the container
PublishContainer(ok) ==
    /\ domain = "publisher"
    /\ pubCall.pc = "commit"
    /\ committed' = committed \cup {pubCall.container}
    /\ pubCall' = [pubCall EXCEPT !.pc = "idle",
                                  !.result = IF ok THEN "ok" ELSE "commit_err"]
    /\ UNCHANGED <<nonIgVars, containers, wait, waitFailed>>

InitIg ==
    /\ domain = "publisher"
    /\ now = 0
    /\ SyncUnused
    /\ PubUnused
    /\ LifeUnused
    /\ ReadUnused
    /\ DrainUnused
    /\ HideUnused
    /\ IgUnused

NextIg ==
    \/ \E media \in MediaInputs, ok \in BOOLEAN : PublishPost(media, ok)
    \/ \E ok \in BOOLEAN : CreateCarouselItem(ok)
    \/ \E ok \in BOOLEAN : CreateCarouselParent(ok)
    \/ \E status \in ContainerStatuses, detail \in ErrorMessages, c \in BOOLEAN :
          Poll(status, detail, c)
    \/ PollFails
    \/ \E ok \in BOOLEAN : PublishContainer(ok)

SpecIg == InitIg /\ [][NextIg]_vars

\* C17: a container wait ends well exactly when a poll returns finished or
\* published; a poll that returns error or expired ends it with a failure
\* whose message is not empty, and such a container is never committed
C17_WaitEndsByStatus ==
    /\ wait.end = "ok" <=> wait.lastPoll \in {"FINISHED", "PUBLISHED"}
    /\ wait.lastPoll \in {"ERROR", "EXPIRED"} =>
          wait.end = "failed" /\ NonEmpty(wait.msg)
    /\ waitFailed \cap committed = {}

\* a wait has ended on a poll that returned error without a detail
C17_Witness ==
    /\ wait.lastPoll = "ERROR"
    /\ wait.end = "failed"
    /\ wait.msg[2] = ""
    /\ pubCall.result = "wait_err"

IsChildOf(c, item) ==
    /\ c.isCarousel
    /\ c.caption = ""
    /\ c.mediaType = ""
    /\ c.children = <<>>
    /\ IF item.type = "image"
       THEN c.imageURL = item.url /\ c.videoURL = ""
       ELSE c.videoURL = item.url /\ c.imageURL = ""

\* C19: a post with N > 1 media items gives N child containers, one per item
\* in input order and without caption, then one carousel parent with the
\* caption whose children are the N child ids in that order
C19_CarouselContainers ==
    LET n == Len(pubCall.media)
        parents == {j \in 1..Len(containers) : containers[j].mediaType = "CAROUSEL"}
    IN /\ (n > 1 /\ pubCall.pc \in {"wait", "commit"} /\ pubCall.container # 0)
             => parents # {}
       /\ (n > 1 /\ pubCall.result = "ok") => parents # {}
       /\ \A j \in parents :
             /\ n > 1
             /\ j = n + 1
             /\ Len(containers) = n + 1
             /\ \A i \in 1..n : IsChildOf(containers[i], pubCall.media[i])
             /\ containers[j].children = [i \in 1..n |-> containers[i].id]
             /\ containers[j].caption = Caption
             /\ ~containers[j].isCarousel

\* a carousel of three items, a video among them, has been published
C19_Witness ==
    /\ Len(pubCall.media) = 3
    /\ \E i \in 1..3 : pubCall.media[i].type = "video"
    /\ \E i \in 1..3 : pubCall.media[i].type = "image"
    /\ pubCall.result = "ok"
    /\ Len(containers) = 4

(***************************************************************************)
(* One sweep of the publication scheduler over several publications:       *)
(* Scheduler.process and Policy.ProcessScheduledPublications on their own. *)
(***************************************************************************)
\* the rows of publications the sweeps find
SweepPubs == {"p1", "p2"}

\* Service.CreatePublication: a draft, or a publication scheduled for a time
InitSweep ==
    /\ domain = "publication_sweep"
    /\ now = 0
    /\ \E at \in [SweepPubs -> {NoTime} \cup 0..MaxPubTime] :
          pubs = [id \in SweepPubs |->
                     IF at[id] = NoTime THEN Draft
                     ELSE Update(Draft, "scheduled", at[id])]
    /\ proc = [p \in Procs |-> IdleProc]
    /\ pubQueue = <<>>
    /\ resp = NoResp
    /\ failedSince = [id \in SweepPubs |-> FALSE]
    /\ SyncUnused
    /\ LifeUnused
    /\ RestUnused

NextSweep ==
    \/ SchedulerSweep
    \/ \E id \in SweepPubs : PublishNowRead("sched", id)
    \/ \E o \in CredentialErrors \cup PublishErrors \cup RemoteIds :
          PublishNowRemote("sched", o)
    \/ PublishNowMarkFailed("sched")
    \/ PublishNowMarkPublished("sched")
    \/ PublishNowRefresh("sched")
    \/ PubTick

SpecSweep == InitSweep /\ [][NextSweep]_vars

\* the publications with status scheduled and scheduledAt <= now
Due ==
    {id \in DOMAIN pubs : /\ pubs[id].status = "scheduled"
                          /\ pubs[id].scheduledAt # NoTime
                          /\ pubs[id].scheduledAt <= now}

BatchMedia == Media \cup {"m3"}

BatchAccounts == Accounts \cup {"a2", "a3"}

\* the time of a sync older than the one at PriorTime
OlderTime == PriorTime - 1

\* what earlier runs left of a media unit: nothing, a sync at one of two stale
\* times or just now, one failed attempt, or the failures that marked it failed
BatchMediaRows ==
    {NoRow, PriorRow(1), PriorRow(MaxRetries)}
        \cup {SyncCommentsFromInstagram(NoRow, t, TRUE) : t \in {OlderTime, PriorTime, 0}}

\* an account that was synced at time t and reported failed maxRetries times
\* since
FailedAccountRow(t) ==
    LET synced == SyncConversations(NoRow, t, TRUE)
        F[r \in 0..MaxRetries] ==
            IF r = 0 THEN synced
            ELSE AccountIncrementRetryCount(F[r - 1], t, "sync_err", MaxRetries)
    IN F[MaxRetries]

\* what earlier runs left of an account: nothing, a sync at one of two stale
\* times or just now, or a sync followed by the failures that marked it failed
BatchAccountRows ==
    {NoRow, FailedAccountRow(OlderTime)}
        \cup {SyncConversations(NoRow, t, TRUE) : t \in {OlderTime, PriorTime, 0}}

InitBatch ==
    /\ domain \in {"comment", "account"}
    /\ now = 0
    /\ IF domain = "comment"
       THEN /\ commentSync \in [BatchMedia -> BatchMediaRows]
            /\ accountSync = [a \in Accounts |-> NoRow]
            /\ consecFails = [u \in BatchMedia |-> 0]
       ELSE /\ commentSync = [m \in Media |-> NoRow]
            /\ accountSync \in [BatchAccounts -> BatchAccountRows]
            /\ consecFails = [u \in BatchAccounts |-> 0]
    /\ sweep = Idle
    /\ PubUnused
    /\ LifeUnused
    /\ RestUnused

NextBatch ==
    \/ CommentSweepSelect
    \/ \E o \in {"ok", "account_err", "token_err", "sync_err"} : CommentSyncMedia(o)
    \/ AccountSweepSelect
    \/ \E o \in {"ok", "token_err", "userid_err", "sync_err"} : AccountSyncAccount(o)
    \/ SweepCancelled

SpecBatch == InitBatch /\ [][NextBatch]_vars

\* C21: within one sweep of a sync sweeper, a unit leaves the batch only by
\* being attempted, whatever its attempt comes back with, and the sweep ends
\* before the batch is empty only when cancellation intervenes: the failure of
\* one unit's sync leaves all units after it in the batch to be attempted
C21_FailureDoesNotStopTheSweep ==
    [][sweep.active =>
          \/ SweepCancelled
          \/ /\ \E o \in SweepErrors \cup {"ok"} :
                   CommentSyncMedia(o) \/ AccountSyncAccount(o)
             /\ sweep'.queue = Tail(sweep.queue)
             /\ sweep'.active <=> Len(sweep.queue) > 1]_vars

\* a sweep whose first unit has just failed, with the second unit of its
\* batch still to be attempted
C21_Witness ==
    /\ sweep.active
    /\ Len(sweep.queue) = 1
    /\ consecFails[Head(sweep.queue)] = 0
    /\ \E u \in DOMAIN consecFails :
          /\ u # Head(sweep.queue)
          /\ consecFails[u] = 1
          /\ \A w \in DOMAIN consecFails \ {u} : consecFails[w] = 0
    /\ \A w \in DOMAIN consecFails :
          LET row == IF domain = "comment" THEN commentSync[w] ELSE accountSync[w]
          IN row.present => row.lastSyncedAt < 0 \/ row.lastError # ""

\* C22: every result of a sweeper's selection query holds at most batchSize
\* units, all of them eligible (not failed, and never synced or stale), as
\* many as there are eligible units up to batchSize, never-synced units before
\* synced ones, and no eligible unit left out was synced before one taken or
\* never synced at all
C22_SelectsOldestEligible ==
    LET Eligible(row, olderThan) ==
            /\ ~row.failed
            /\ ~row.present \/ row.lastSyncedAt < now - olderThan
        NotAfter(r1, r2) ==
            ~r1.present \/ (r2.present /\ r1.lastSyncedAt <= r2.lastSyncedAt)
        Holds(table, olderThan, results) ==
            \A ids \in results :
               LET taken == {ids[i] : i \in 1..Len(ids)}
                   eligible == {u \in DOMAIN table : Eligible(table[u], olderThan)}
               IN /\ Len(ids) <= BatchSize
                  /\ Cardinality(taken) = Len(ids)
                  /\ taken \subseteq eligible
                  /\ Len(ids) = Min(BatchSize, Cardinality(eligible))
                  /\ \A i, j \in 1..Len(ids) :
                        i < j => NotAfter(table[ids[i]], table[ids[j]])
                  /\ \A u \in eligible \ taken : \A v \in taken :
                        NotAfter(table[v], table[u])
    IN /\ Holds(commentSync, CommentSyncAge,
                GetMediaIDsNeedingSync(commentSync, now, CommentSyncAge, BatchSize))
       /\ Holds(accountSync, DirectSyncAge,
                GetAccountsNeedingSync(accountSync, now, DirectSyncAge, BatchSize))

(***************************************************************************)
(* Creating and editing publications: the requests of every type and media *)
(* count, one after the other, with the pipeline behind them.              *)
(***************************************************************************)
\* the numbers of media a create or an edit request carries
EditCounts == {0, 1, 2, MaxPostMedia, MaxPostMedia + 1}

\* the update requests of this specification
EditInputs == UpdateInputsWith(EditCounts)

\* Service.CreatePublication: scheduled if a ScheduledAt is given, else draft;
\* Validate; then publications.Create and media.Create for every item
CreatePublication(p, id, type, nMedia, at) ==
    /\ p \in Http
    /\ proc[p].pc = "idle"
    /\ MayStart
    /\ pubs[id].status = "none"
    /\ LET new == [NoPub EXCEPT !.type = type, !.nMedia = nMedia,
                                !.scheduledAt = at,
                                !.status = IF at # NoTime THEN "scheduled"
                                           ELSE "draft"]
           err == Validate(new, now)
       IN /\ pubs' = IF err = "" THEN [pubs EXCEPT ![id] = new] ELSE pubs
          /\ resp' = [op |-> "create", id |-> id, err |-> err, remote |-> "",
                      pub |-> IF err = "" THEN new ELSE NoPub]
    /\ UNCHANGED <<domain, now, nonPubVars, proc, pubQueue, failedSince>>

\* an empty table
InitEdit ==
    /\ domain = "publication_edit"
    /\ now = 0
    /\ pubs = [id \in PubIds |-> NoPub]
    /\ proc = [p \in Procs |-> IdleProc]
    /\ pubQueue = <<>>
    /\ resp = NoResp
    /\ failedSince = [id \in PubIds |-> FALSE]
    /\ SyncUnused
    /\ LifeUnused
    /\ RestUnused

NextEdit ==
    \/ \E p \in Http, id \in PubIds, type \in PublicationTypes,
          n \in EditCounts, at \in {NoTime} \cup 0..MaxPubTime :
          CreatePublication(p, id, type, n, at)
    \/ \E p \in Http, id \in PubIds, in \in EditInputs : UpdateRead(p, id, in)
    \/ \E p \in Http : UpdateWrite(p)
    \/ \E p \in Procs, id \in PubIds : PublishNowRead(p, id)
    \/ \E p \in Procs, o \in CredentialErrors \cup PublishErrors \cup RemoteIds :
          PublishNowRemote(p, o)
    \/ \E p \in Procs : PublishNowMarkFailed(p)
    \/ \E p \in Procs : PublishNowMarkPublished(p)
    \/ \E p \in Procs : PublishNowRefresh(p)
    \/ SchedulerSweep
    \/ PubTick

SpecEdit == InitEdit /\ [][NextEdit]_vars

\* C25: a schedule request for a time before now is turned down with the
\* validation error of a time in the past, before the publication is read and
\* before any call or write, and the table is as it was; a full update that
\* carries such a time is turned down too and leaves status and scheduledAt
C25_PastScheduleRejected ==
    [][\A p \in Http, id \in PubIds, in \in EditInputs :
          (in.kind = "schedule" /\ in.at < now /\ UpdateRead(p, id, in))
          => /\ resp'.op = "schedule"
             /\ resp'.err # ""
             /\ proc'[p].pc = "idle"
             /\ pubs'[id].status = pubs[id].status
             /\ pubs'[id].scheduledAt = pubs[id].scheduledAt
             /\ in.api = "post" => (resp'.err = "time_in_past" /\ pubs' = pubs)]_vars

\* a draft with its one media has been asked to go out at a time that had
\* passed, and is a draft with no time still
C25_Witness ==
    /\ now > 0
    /\ resp.op = "schedule"
    /\ resp.err = "time_in_past"
    /\ pubs[resp.id].status = "draft"
    /\ pubs[resp.id].scheduledAt = NoTime
    /\ pubs[resp.id].nMedia = 1

\* C26: no publication is in status error with a validation error as its
\* message: a wrong media count, a missing field or a time in the past is
\* answered before any remote call and is never recorded as a failed publish
C26_ValidationNeverMarksError ==
    \A id \in PubIds :
       pubs[id].status = "error" => pubs[id].errorMessage \notin ValidationErrors

\* C27: a publication in status draft or scheduled is scheduled exactly if
\* its scheduledAt is set; a schedule request with a time not in the past on
\* an editable publication makes it scheduled for that time, and a
\* save-as-draft request makes it a draft with no scheduledAt
C27_ScheduledIffScheduledAt ==
    [][/\ \A id \in PubIds :
             pubs'[id].status \in {"draft", "scheduled"}
             => (pubs'[id].status = "scheduled" <=> pubs'[id].scheduledAt # NoTime)
       /\ \A p \in Http, id \in PubIds, in \in EditInputs :
             (/\ in.api = "post"
              /\ in.kind = "schedule" => in.at >= now
              /\ IsEditable(pubs[id])
              /\ UpdateRead(p, id, in))
             => /\ proc'[p].pc = "up_write"
                /\ proc'[p].pub.status =
                      IF in.kind = "schedule" THEN "scheduled" ELSE "draft"
                /\ proc'[p].pub.scheduledAt = in.at]_vars

\* C28: every stored publication has one media if it is a story or a reel
\* and from one to ten if it is a post, whatever requests came before,
\* rejected ones among them
C28_MediaCountFitsType ==
    \A id \in PubIds :
       pubs[id].status # "none"
       => /\ pubs[id].type \in {"story", "reel"} => pubs[id].nMedia = 1
          /\ pubs[id].type = "post" => pubs[id].nMedia \in 1..MaxPostMedia

(***************************************************************************)
(* Publish attempts that meet: publish-now requests, sweeps and edits on   *)
(* one publication.                                                        *)
(***************************************************************************)
\* a goroutine's Publish for the publication has returned a remote id that
\* its PublishNow has not yet handed back
CommitUnderWay(p, id) ==
    /\ proc[p].pc \in {"pn_published", "pn_refresh"}
    /\ proc[p].id = id

\* C31: the commit at Instagram succeeds at most once for a publication: when
\* a Publish returns a remote id, no earlier Publish for the same publication
\* has returned one, recorded in the row or still on its way to it
C31_CommitAtMostOnce ==
    [][\A p \in Procs, o \in RemoteIds :
          (PublishNowRemote(p, o) /\ proc'[p].pc = "pn_published")
          => /\ pubs[proc[p].id].igMediaId = ""
             /\ \A q \in Procs \ {p} : ~CommitUnderWay(q, proc[p].id)]_vars

\* C32: the scheduler's attempt on a publication goes on to the remote calls
\* only if the publication is in status scheduled when the attempt reads it
C32_SweepPublishesOnlyScheduled ==
    [][\A id \in PubIds :
          (PublishNowRead("sched", id) /\ proc'["sched"].pc = "pn_remote")
          => pubs[id].status = "scheduled"]_vars

(***************************************************************************)
(* When lastSyncedAt is written.                                           *)
(***************************************************************************)
\* SyncStatus.LastSyncedAt as GetSyncStatus gives it: nil for a unit without
\* a row
LastSyncedAt(row) == IF row.present THEN row.lastSyncedAt ELSE NoTime

\* C33: the lastSyncedAt of a unit changes only in a step in which a drain of
\* that unit completes successfully (in the sweeper, in a stale read or in a
\* manual sync); a failed drain and the recording of a failed sweep attempt
\* leave it as it was. The account tracker's recording of a failed attempt,
\* whose repository is not part of the source, is left aside.
C33_LastSyncedAtOnlyOnSuccess ==
    [][/\ \A m \in Media :
             LastSyncedAt(commentSync'[m]) # LastSyncedAt(commentSync[m])
             => \/ (sweep.active /\ Head(sweep.queue) = m /\ CommentSyncMedia("ok"))
                \/ CommentGetComments(m, TRUE)
                \/ CommentManualSync(m, "ok")
       /\ \A a \in Accounts :
             (/\ LastSyncedAt(accountSync'[a]) # LastSyncedAt(accountSync[a])
              /\ ~IncrementAccountSyncRetryCount(a, "sync_err"))
             => \/ (sweep.active /\ Head(sweep.queue) = a /\ AccountSyncAccount("ok"))
                \/ AccountManualSync(a, "ok")]_vars

(***************************************************************************)
(* Carousels: the order of waits and parent, and the polls of one publish. *)
(***************************************************************************)
\* the carousel parents among the containers created
Parents == {j \in 1..Len(containers) : containers[j].mediaType = "CAROUSEL"}

\* the containers of carousel items that are videos
VideoChildren ==
    {j \in 1..Len(containers) :
        containers[j].isCarousel /\ containers[j].videoURL # ""}

\* C34: where a carousel parent exists, every video child created before it
\* has been polled to finished or published; and once the creation of a
\* child or the wait for one has failed, there is no parent and nothing has
\* been committed
C34_ParentAfterReadyChildren ==
    /\ \A j \in Parents :
          \A k \in VideoChildren : k < j => k \in pubCall.ready
    /\ (/\ Len(pubCall.media) > 1
        /\ \/ (pubCall.result = "create_err" /\ pubCall.i <= Len(pubCall.media))
           \/ (pubCall.result = "wait_err" /\ wait.after = "child"))
       => (Parents = {} /\ committed = {})

\* a carousel of a video, an image and a video has its parent, after the
\* first video was published and the second finished
C34_Witness ==
    /\ Len(pubCall.media) = 3
    /\ pubCall.media[1].type = "video"
    /\ pubCall.media[2].type = "image"
    /\ pubCall.media[3].type = "video"
    /\ Parents = {4}
    /\ pubCall.ready = {1, 3}
    /\ pubCall.pc = "wait"

\* C35: one publish makes at most MaxAttempts polls in all: the polls of the
\* wait under way and at least one for each wait that ended well before it
C35_PollsOfOnePublishBounded ==
    wait.attempts + Cardinality(pubCall.ready \ {wait.container}) <= MaxAttempts

(***************************************************************************)
(* Periodic tasks: ticks during a sweep, the first sweep, and restarts.    *)
(***************************************************************************)
\* C36: a sweep that the loop of a task starts on a tick starts on a tick
\* that fired while the loop was waiting, after the sweep before it ended:
\* no tick that fired during a sweep (or before the first one) starts one
C36_TicksDuringSweepNotQueued ==
    [][\A g \in Runs : RunTick(g) => run[g].tickIn = "loop"]_vars

\* C37: no run goroutine of a task, the publication scheduler's included,
\* goes into its first sweep from its start: the first sweep comes out of the
\* startup delay
C37_FirstSweepAfterDelay ==
    [][\A g \in Runs :
          (run[g].pc # "sweep" /\ run'[g].pc = "sweep")
          => run[g].pc \in {"delay", "loop"}]_vars

\* C38: a task can be stopped and started again: a Start that comes after a
\* Stop has returned and finds the task stopped launches a loop that can
\* sweep periodically and that a following Stop can end, which is to say the
\* stop channel the loop waits on, and the Stop will close, is open
C38_TaskCanBeCycled ==
    [][\A g \in Runs :
          (stopReturned /\ StartLock(g) /\ caller'.starter[g] = "start_spawn")
          => sched'.stopCh = "open"]_vars

(***************************************************************************)
(* What a drain stopped by the empty-page guard records.                   *)
(***************************************************************************)
\* the loop of the drain was left by the guard: MaxEmptyPages pages in a row
\* came empty, each with a cursor and more pages reported
StoppedByGuard ==
    /\ drain.kind = "conversations"
    /\ drain.pc = "wait"
    /\ drain.emptyPages >= MaxEmptyPages
    /\ drain.emptyRun >= MaxEmptyPages

\* C39: the return of a drain that the empty-page guard stopped leaves the
\* sync status of the unit as it was: syncComplete is not set and
\* lastSyncedAt is not advanced
C39_GuardAbortNotRecorded ==
    [][\A o \in FinishOutcomes :
          (StoppedByGuard /\ DrainFinish(o)) => drainStatus' = drainStatus]_vars

(***************************************************************************)
(* Sweep after sweep over more units than a batch holds: which units a     *)
(* sweeper gets to.                                                        *)
(***************************************************************************)
\* the units a sweep is meant to take: not failed, and never synced or stale
EligibleUnits ==
    IF domain = "comment"
    THEN {m \in DOMAIN commentSync :
             /\ ~commentSync[m].failed
             /\ \/ ~commentSync[m].present
                \/ commentSync[m].lastSyncedAt < now - CommentSyncAge}
    ELSE {a \in DOMAIN accountSync :
             /\ ~accountSync[a].failed
             /\ \/ ~accountSync[a].present
                \/ accountSync[a].lastSyncedAt < now - DirectSyncAge}

\* the unit is in the batch of the sweep under way
Selected(u) == sweep.active /\ \E i \in 1..Len(sweep.queue) : sweep.queue[i] = u

\* the sweeper's loop with no shutdown: select a batch, attempt its units
NextBatchLive ==
    \/ CommentSweepSelect
    \/ \E o \in {"ok", "account_err", "token_err", "sync_err"} : CommentSyncMedia(o)
    \/ AccountSweepSelect
    \/ \E o \in {"ok", "token_err", "userid_err", "sync_err"} : AccountSyncAccount(o)

\* sweeps keep running: the ticker keeps firing and every attempt returns
SpecBatchLive == InitBatch /\ [][NextBatchLive]_vars /\ WF_vars(NextBatchLive)

\* C40: while sweeps keep running, no unit stays eligible for ever without
\* being taken into the batch of a sweep: again and again the unit is in a
\* batch or is not eligible
C40_EligibleEventuallySelected ==
    \A u \in BatchMedia \cup BatchAccounts :
       []<>(u \notin EligibleUnits \/ Selected(u))

====
